---- MODULE Spec2Model ----
(***************************************************************************)
(* Expansion state machine of the NetworkGraph component: the expansion    *)
(* path, the visibility sets derived from it, the per-breadcrumb hidden    *)
(* child counts and the deferred viewport fit that follows a path change.  *)
(* The component is modelled in its radial layout (the default value of    *)
(* the layout prop) with the onNodeExpandableClick callback supplied, as   *)
(* App.tsx does.  One action stands for one event handler together with    *)
(* the re-render and the effects that the handler's state update causes.   *)
(***************************************************************************)
EXTENDS Integers, Sequences, FiniteSets, TLC

VARIABLES
    data,                 \* prop data: [nodes: Seq(node), edges: Seq(edge)]
    centerKey,            \* prop centerKey
    expansionPath,        \* useState: sequence of node keys
    measured,             \* measuredWidth # 0 /\ measuredHeight # 0
    prevExpansionLength,  \* prevExpansionLengthRef.current
    timers,               \* pending window.setTimeout callbacks
    cleanupTimer,         \* timer id held by the auto-fit effect's cleanup, 0 if none
    fitCall,              \* the position map the last step handed to zoomToFit, NoLayout if none
    last,                 \* history: the event handled by the last step
    positions,            \* useState: Map<string, NodePos> as a function on its key set
    dragStateRef,         \* dragStateRef.current: the key being dragged, NoKey for null
    readOnly,             \* prop readOnly
    config,               \* prop config
    calc,                 \* a call of a pure function: [op, in, out]
    transform,            \* transformRef.current: the zoom transform [k, x, y]
    didInitialFitRef,     \* didInitialFitRef.current
    prevSizeRef,          \* prevSizeRef.current: [w, h]
    size                  \* measuredWidth and measuredHeight: [w, h]

vars == <<data, centerKey, expansionPath, measured, prevExpansionLength,
          timers, cleanupTimer, fitCall, last, positions, dragStateRef,
          readOnly, config, calc, transform, didInitialFitRef, prevSizeRef, size>>

\* the state of the view: followed by the view machine alone, the other
\* machines know the viewport by `measured` and a fit by `fitCall`
viewVars == <<transform, didInitialFitRef, prevSizeRef, size>>

(***************************************************************************)
(* Bounds of the model.                                                    *)
(***************************************************************************)
MaxEdges == 1
MaxPath == 7

Keys == {"CENTER", "A", "B"}
KeyOrder == <<"CENTER", "A", "B">>
NoKey == "none"

Range(s) == {s[i] : i \in DOMAIN s}

(***************************************************************************)
(* Graph data handed to the component.  A node is [key, expandable], an    *)
(* edge is [from, to].  The node list may lack the key CENTER (so that the *)
(* root or an edge endpoint can be unknown), the node B may be not         *)
(* expandable, and an edge may be a self-loop and point in either          *)
(* direction.  The named graphs add parallel and antiparallel edges, a     *)
(* cycle and a chain of five nodes.                                        *)
(***************************************************************************)
MkNodes(ks, nonExpandable) ==
    [i \in 1..Len(ks) |-> [key |-> ks[i], expandable |-> ks[i] # nonExpandable]]

NodeLists ==
    {MkNodes(SelectSeq(KeyOrder, LAMBDA k : k # m), x) :
        m \in {NoKey, "CENTER"}, x \in {NoKey, "B"}}

Pairs == [from : Keys, to : Keys]

EdgeLists == UNION {[1..n -> Pairs] : n \in 0..MaxEdges}

SmallGraphs == [nodes : NodeLists, edges : EdgeLists]

Edge(f, t) == [from |-> f, to |-> t]

\* the scenario of the specification: CENTER->A, CENTER->B, A->C
ScenarioGraph ==
    [nodes |-> MkNodes(<<"CENTER", "A", "B", "C">>, NoKey),
     edges |-> <<Edge("CENTER", "A"), Edge("CENTER", "B"), Edge("A", "C")>>]

\* the scenario with the edge CENTER->B listed twice
ParallelGraph ==
    [nodes |-> MkNodes(<<"CENTER", "A", "B", "C">>, NoKey),
     edges |-> <<Edge("CENTER", "A"), Edge("CENTER", "B"), Edge("CENTER", "B"),
                 Edge("A", "C")>>]

\* a chain CENTER - A - B - C with a further neighbour D of A
TrailGraph ==
    [nodes |-> MkNodes(<<"CENTER", "A", "B", "C", "D">>, NoKey),
     edges |-> <<Edge("CENTER", "A"), Edge("A", "B"), Edge("B", "C"),
                 Edge("A", "D")>>]

\* a graph with a cycle: antiparallel edges between A and B, a self-loop at B
\* and an edge from B back to CENTER
CycleGraph ==
    [nodes |-> MkNodes(<<"CENTER", "A", "B">>, NoKey),
     edges |-> <<Edge("CENTER", "A"), Edge("A", "B"), Edge("B", "A"),
                 Edge("B", "B"), Edge("B", "CENTER")>>]

\* a root with two neighbours: CENTER->A, CENTER->B
StarGraph ==
    [nodes |-> MkNodes(<<"CENTER", "A", "B">>, NoKey),
     edges |-> <<Edge("CENTER", "A"), Edge("CENTER", "B")>>]

NamedGraphs == {ScenarioGraph, ParallelGraph, TrailGraph, CycleGraph}

Graphs == SmallGraphs \cup NamedGraphs

NodeKeys(d) == {d.nodes[i].key : i \in DOMAIN d.nodes}

(***************************************************************************)
(* Array helpers.                                                          *)
(***************************************************************************)
\* Array.prototype.indexOf, 1-based; 0 stands for -1
indexOf(s, x) ==
    IF x \in Range(s) THEN CHOOSE i \in DOMAIN s : s[i] = x /\ \A j \in 1..(i - 1) : s[j] # x
    ELSE 0

\* Array.prototype.slice(0, n)
slice(s, n) == SubSeq(s, 1, n)

(***************************************************************************)
(* Derived visibility (useMemo blocks).  Each is written as a function of  *)
(* the props and the path of the render that computes it.                  *)
(***************************************************************************)
\* Map<string, Set<string>>: one entry per node key; an edge adds each of its
\* endpoints to the other endpoint's set when that other endpoint has an entry
nodeConnectionsMapOf(d) ==
    [k \in NodeKeys(d) |->
        {d.edges[i].to : i \in {j \in DOMAIN d.edges : d.edges[j].from = k}}
        \cup {d.edges[i].from : i \in {j \in DOMAIN d.edges : d.edges[j].to = k}}]

\* nodeConnectionsMap.get(k)?.has(n) ?? false
hasConnection(d, k, n) ==
    k \in DOMAIN nodeConnectionsMapOf(d) /\ n \in nodeConnectionsMapOf(d)[k]

focusOf(path) == path[Len(path)]

\* variant: only the edges that leave the focus make a neighbour visible
visibleNodesOutgoingOf(d, path) ==
    LET focusNode == focusOf(path)
        visibleKeys == Range(path)
                       \cup {d.edges[i].to : i \in {j \in DOMAIN d.edges : d.edges[j].from = focusNode}}
    IN SelectSeq(d.nodes, LAMBDA n : n.key \in visibleKeys)

\* variant: the breadcrumb trail is not kept, only the focus and its neighbours
visibleNodesFocusOnlyOf(d, path) ==
    LET focusNode == focusOf(path)
        map == nodeConnectionsMapOf(d)
        visibleKeys == {focusNode}
                       \cup (IF focusNode \in DOMAIN map THEN map[focusNode] ELSE {})
    IN SelectSeq(d.nodes, LAMBDA n : n.key \in visibleKeys)

visibleNodesOf(d, path) ==
    IF Len(path) = 0 THEN d.nodes
    ELSE LET focusNode == focusOf(path)
             map == nodeConnectionsMapOf(d)
             visibleKeys == Range(path)
                            \cup (IF focusNode \in DOMAIN map THEN map[focusNode] ELSE {})
         IN SelectSeq(d.nodes, LAMBDA n : n.key \in visibleKeys)

\* the earlier copy of the component reads the neighbours of the focus off the
\* edge list instead of the connections map
visibleNodesByEdgesOf(d, path) ==
    IF Len(path) = 0 THEN d.nodes
    ELSE LET focusNode == focusOf(path)
             visibleKeys == Range(path)
                            \cup {d.edges[i].to : i \in {j \in DOMAIN d.edges : d.edges[j].from = focusNode}}
                            \cup {d.edges[i].from : i \in {j \in DOMAIN d.edges : d.edges[j].to = focusNode}}
         IN SelectSeq(d.nodes, LAMBDA n : n.key \in visibleKeys)

KeysOf(ns) == {ns[i].key : i \in DOMAIN ns}

\* data.edges.filter(edge => visibleKeys.has(edge.from) && visibleKeys.has(edge.to))
visibleEdgesFrom(d, vnodes) ==
    SelectSeq(d.edges, LAMBDA e : e.from \in KeysOf(vnodes) /\ e.to \in KeysOf(vnodes))

visibleEdgesOf(d, path) == visibleEdgesFrom(d, visibleNodesOf(d, path))

\* Map<string, {totalChildren, hiddenChildren}> as a function on its key set
collapsedNodeInfoOf(d, path) ==
    LET map == nodeConnectionsMapOf(d)
        visibleKeys == KeysOf(visibleNodesOf(d, path))
        children(k) == {c \in map[k] : c # k}
        hidden(k) == {c \in children(k) : c \notin visibleKeys}
        entries == {k \in Range(slice(path, Len(path) - 1)) :
                        k \in DOMAIN map /\ Cardinality(hidden(k)) > 0}
    IN [k \in entries |-> [totalChildren |-> Cardinality(children(k)),
                           hiddenChildren |-> Cardinality(hidden(k))]]

\* the earlier copy of the component: children is the array of the other
\* endpoints of the edges at k (one element per edge), totalChildren counts its
\* distinct elements and hiddenChildren the elements of the filtered array
collapsedNodeInfoByEdgesOf(d, path) ==
    LET visibleKeys == KeysOf(visibleNodesByEdgesOf(d, path))
        other(k, e) == IF e.from = k THEN e.to ELSE e.from
        childEdges(k) == {i \in DOMAIN d.edges :
                            /\ (d.edges[i].from = k \/ d.edges[i].to = k)
                            /\ other(k, d.edges[i]) # k}
        hiddenEdges(k) == {i \in childEdges(k) : other(k, d.edges[i]) \notin visibleKeys}
        entries == {k \in Range(slice(path, Len(path) - 1)) : Cardinality(hiddenEdges(k)) > 0}
    IN [k \in entries |->
            [totalChildren |-> Cardinality({other(k, d.edges[i]) : i \in childEdges(k)}),
             hiddenChildren |-> Cardinality(hiddenEdges(k))]]

\* the values of the current render
nodeConnectionsMap == nodeConnectionsMapOf(data)
visibleNodes == visibleNodesOf(data, expansionPath)
visibleEdges == visibleEdgesOf(data, expansionPath)
collapsedNodeInfo == collapsedNodeInfoOf(data, expansionPath)

\* baseLayout of a render, as the path it was computed for and the keys it
\* positions: computeRadialLayoutAdaptive places the focus and its visible
\* neighbours (depth 1), and every path key missing from its result is added
baseLayoutOf(d, path) ==
    [path |-> path, keys |-> KeysOf(visibleNodesOf(d, path)) \cup Range(path)]

\* a NodePos is either the point the layout computes for the key from the
\* inputs of the current render, or a world point the pointer has dragged the
\* node to; the drag points stand for points other than the layout's
LayoutPos == "layout"
DragPoints == {"p", "q"}

\* the position map baseLayout of a render
positionsOf(d, path) == [k \in baseLayoutOf(d, path).keys |-> LayoutPos]

\* defaultConfig, and a config object with another maxDepth and childSpreadDeg
defaultConfig == [maxDepth |-> 7, childSpreadDeg |-> 80]
Configs == {defaultConfig, [maxDepth |-> 3, childSpreadDeg |-> 60]}

\* renderedNodesOverlay: visible nodes that have a position
renderedKeys == {k \in KeysOf(visibleNodes) : k \in baseLayoutOf(data, expansionPath).keys}

isExpandableNode(k) == \E i \in DOMAIN data.nodes : data.nodes[i].key = k /\ data.nodes[i].expandable

(***************************************************************************)
(* Numbers of the view.  A scale or a screen coordinate is a fraction      *)
(* [num, den] in lowest terms with den > 0, so that the arithmetic of the  *)
(* zoom functions is exact.                                                *)
(***************************************************************************)
Abs(n) == IF n < 0 THEN -n ELSE n

RECURSIVE GCD(_, _)
GCD(a, b) == IF b = 0 THEN a ELSE GCD(b, a % b)

Rat(n, d) ==
    LET g == GCD(Abs(n), Abs(d))
        sg == IF d < 0 THEN -1 ELSE 1
    IN [num |-> (sg * n) \div g, den |-> (sg * d) \div g]

Zero == Rat(0, 1)
One == Rat(1, 1)
RatAdd(a, b) == Rat(a.num * b.den + b.num * a.den, a.den * b.den)
RatSub(a, b) == Rat(a.num * b.den - b.num * a.den, a.den * b.den)
RatMul(a, b) == Rat(a.num * b.num, a.den * b.den)
RatDiv(a, b) == Rat(a.num * b.den, a.den * b.num)
RatLess(a, b) == a.num * b.den < b.num * a.den
RatLeq(a, b) == a.num * b.den <= b.num * a.den
RatMin(a, b) == IF RatLess(b, a) THEN b ELSE a
RatMax(a, b) == IF RatLess(a, b) THEN b ELSE a

\* clamp(n, min, max) on fractions: Math.max(min, Math.min(max, n))
clampNumber(n, min, max) == RatMax(min, RatMin(max, n))

\* A zoom transform is held as its scale k and the world point (wx, wy) it
\* shows at the centre of the measured viewport w x h: it is the transform
\* zoomIdentity.translate(w / 2, h / 2).scale(k).translate(-wx, -wy), with
\* the screen translation x = w / 2 - k * wx, y = h / 2 - k * wy.
centred(k, wx, wy) == [k |-> k, wx |-> wx, wy |-> wy]

\* d3 zoomIdentity, in the viewport 0 x 0
zoomIdentity == centred(One, Zero, Zero)

\* the transform t of the viewport p, by the world point at the centre of
\* the viewport s: t.invert([s.w / 2, s.h / 2])
invert(t, p, s) ==
    centred(t.k, RatAdd(t.wx, RatDiv(Rat(s.w - p.w, 2), t.k)),
                 RatAdd(t.wy, RatDiv(Rat(s.h - p.h, 2), t.k)))

\* the viewport before the ResizeObserver has reported it
NoSize == [w |-> 0, h |-> 0]

\* the view of a component that has not been measured
ViewUnmeasured ==
    /\ transform = zoomIdentity
    /\ didInitialFitRef = FALSE
    /\ prevSizeRef = NoSize
    /\ size = NoSize

(***************************************************************************)
(* The auto-fit effect, with dependency [expansionPath]: it runs again in  *)
(* the render that follows every setExpansionPath call, after the cleanup  *)
(* of its previous run.                                                    *)
(***************************************************************************)
NoLayout == [path |-> <<>>, keys |-> {}]

TimerIds == 1..2

\* variant: the effect returns no cleanup, the earlier timer stays pending
clearTimeoutNever(ts, id) == ts

\* cleanup of the previous run: window.clearTimeout(timerId)
clearTimeout(ts, id) == {t \in ts : t.id # id}

\* variant: the callback is never queued
setTimeoutDropped(ts, id, layout) == ts

\* window.setTimeout(() => zoomToFit(baseLayout), 0) with a fresh timer id
setTimeout(ts, id, layout) == ts \cup {[id |-> id, layout |-> layout]}

freshTimerId(ts) == CHOOSE id \in TimerIds : \A t \in ts : t.id # id

autoFitEffect(d, path) ==
    LET cleared == clearTimeout(timers, cleanupTimer)
    IN /\ prevExpansionLength' = Len(path)
       /\ IF prevExpansionLength = Len(path) /\ Len(path) = 1
          THEN timers' = cleared /\ cleanupTimer' = 0
          ELSE IF ~measured
          THEN timers' = cleared /\ cleanupTimer' = 0
          ELSE /\ timers' = setTimeout(cleared, freshTimerId(cleared), baseLayoutOf(d, path))
               /\ cleanupTimer' = freshTimerId(cleared)
       /\ fitCall' = NoLayout

\* setExpansionPath(path) followed by the render it causes, with props d
setExpansionPath(d, path) ==
    /\ expansionPath' = path
    /\ positions' = positionsOf(d, path)
    /\ autoFitEffect(d, path)

\* whether the cleanup of the auto-fit effect finds its timer still pending
pendingFit == \E t \in timers : t.id = cleanupTimer

\* history of the last step: the handler, its node and whether the step
\* cancelled a pending fit
Event(op, key, cancelled) == [op |-> op, key |-> key, cancelled |-> cancelled]

(***************************************************************************)
(* Handlers.                                                               *)
(***************************************************************************)
\* variant: only an edge from the focus to n makes n a direct child
expandTargetOutgoingOnly(n) ==
    IF n # centerKey
    THEN LET currentFocus == focusOf(expansionPath)
             isDirectChild == \E i \in DOMAIN data.edges :
                                  data.edges[i].from = currentFocus /\ data.edges[i].to = n
             nodeIndexInPath == indexOf(expansionPath, n)
         IN IF isDirectChild THEN {Append(expansionPath, n)}
            ELSE IF nodeIndexInPath # 0 THEN {slice(expansionPath, nodeIndexInPath)}
            ELSE {}
    ELSE {}

\* variant: every clicked node other than the root is appended, without the
\* check that it is connected to the focus
expandTargetUnchecked(n) ==
    IF n # centerKey THEN {Append(expansionPath, n)} ELSE {}

\* the argument of the setExpansionPath call onExpandClick makes for node n:
\* a set with one path, or the empty set when it makes no call
expandTarget(n) ==
    IF n # centerKey
    THEN LET currentFocus == focusOf(expansionPath)
             isDirectChild == hasConnection(data, currentFocus, n)
             nodeIndexInPath == indexOf(expansionPath, n)
         IN IF isDirectChild THEN {Append(expansionPath, n)}
            ELSE IF nodeIndexInPath # 0 THEN {slice(expansionPath, nodeIndexInPath)}
            ELSE {}
    ELSE {}

\* click on the expand button of node n
onExpandClick(n) ==
    /\ UNCHANGED <<calc, viewVars>>
    /\ n \in renderedKeys
    /\ isExpandableNode(n)
    /\ \A p \in expandTarget(n) : Len(p) <= MaxPath
    /\ IF expandTarget(n) # {}
       THEN \E p \in expandTarget(n) : setExpansionPath(data, p)
       ELSE /\ UNCHANGED <<expansionPath, prevExpansionLength, timers, cleanupTimer,
                          positions>>
            /\ fitCall' = NoLayout
    /\ last' = Event("expand", n, expandTarget(n) # {} /\ pendingFit)
    /\ UNCHANGED <<data, centerKey, measured, dragStateRef, readOnly, config>>

\* the argument of the setExpansionPath call the hidden-count badge makes
badgeTarget(n) ==
    LET nodeIndex == indexOf(expansionPath, n)
    IN IF nodeIndex # 0 THEN {slice(expansionPath, nodeIndex)} ELSE {}

\* click on the "+N" badge of the collapsed box drawn around node n
onBadgeClick(n) ==
    /\ UNCHANGED <<calc, viewVars>>
    /\ n \in renderedKeys
    /\ n \in DOMAIN collapsedNodeInfo
    /\ IF badgeTarget(n) # {}
       THEN \E p \in badgeTarget(n) : setExpansionPath(data, p)
       ELSE /\ UNCHANGED <<expansionPath, prevExpansionLength, timers, cleanupTimer,
                          positions>>
            /\ fitCall' = NoLayout
    /\ last' = Event("badge", n, badgeTarget(n) # {} /\ pendingFit)
    /\ UNCHANGED <<data, centerKey, measured, dragStateRef, readOnly, config>>

\* the data objects the host passes in place of the current one: a new object
\* with the same content, or the scenario graph
NewData == {data, ScenarioGraph}

\* variant: the effect is missing, the path stays as it is
resetPathKept(newCenterKey, path) == path

\* variant: the effect depends on centerKey only
resetPathOnRootChange(newCenterKey, path) ==
    IF path[1] = newCenterKey THEN path ELSE <<newCenterKey>>

\* reset effect, dependencies [centerKey, data]: the path it sets
resetPath(newCenterKey, path) == <<newCenterKey>>

\* the host passes a new data object, a new centerKey, or both
PropsChange(newData, newCenterKey) ==
    /\ UNCHANGED <<calc, viewVars>>
    /\ data' = newData
    /\ centerKey' = newCenterKey
    /\ setExpansionPath(newData, resetPath(newCenterKey, expansionPath))
    /\ last' = Event("props", NoKey, pendingFit)
    /\ UNCHANGED <<measured, dragStateRef, readOnly, config>>

\* useResizeObserver reports a new size of the container (m: the new size is
\* not zero); baseLayout depends on measuredWidth and measuredHeight, and the
\* effect on [baseLayout] stores the recomputed map
Resize(m) ==
    /\ UNCHANGED <<calc, viewVars>>
    /\ m \/ measured
    /\ measured' = m
    /\ positions' = positionsOf(data, expansionPath)
    /\ last' = Event("resize", NoKey, FALSE)
    /\ fitCall' = NoLayout
    /\ UNCHANGED <<data, centerKey, expansionPath, prevExpansionLength, timers,
                   cleanupTimer, dragStateRef, readOnly, config>>

\* zoomToFit(posMap): the viewport transform is computed from the bounds of posMap
zoomToFit(layout) == fitCall' = layout

\* a pending timer callback runs
TimerFire(t) ==
    /\ UNCHANGED <<calc, viewVars>>
    /\ t \in timers
    /\ timers' = timers \ {t}
    /\ zoomToFit(t.layout)
    /\ last' = Event("timer", NoKey, FALSE)
    /\ UNCHANGED <<data, centerKey, expansionPath, measured, prevExpansionLength,
                   cleanupTimer, positions, dragStateRef, readOnly, config>>

\* pointer-down on the box of node key
onNodePointerDown(key) ==
    /\ UNCHANGED <<calc, viewVars>>
    /\ key \in renderedKeys
    /\ dragStateRef' = IF readOnly \/ key \notin DOMAIN positions THEN dragStateRef ELSE key
    /\ last' = Event("down", key, FALSE)
    /\ fitCall' = NoLayout
    /\ UNCHANGED <<data, centerKey, expansionPath, measured, prevExpansionLength,
                   timers, cleanupTimer, positions, readOnly, config>>

\* pointer-move on a node box, the pointer (plus the drag offset) at point pt:
\* setPositions(prev => new Map(prev).set(s.key, pt))
onNodePointerMove(pt) ==
    /\ UNCHANGED <<calc, viewVars>>
    /\ renderedKeys # {}
    /\ positions' = IF dragStateRef = NoKey THEN positions
                    ELSE [k \in DOMAIN positions \cup {dragStateRef} |->
                             IF k = dragStateRef THEN pt ELSE positions[k]]
    /\ last' = Event("move", dragStateRef, FALSE)
    /\ fitCall' = NoLayout
    /\ UNCHANGED <<data, centerKey, expansionPath, measured, prevExpansionLength,
                   timers, cleanupTimer, dragStateRef, readOnly, config>>

\* pointer-up or pointer-cancel on a node box
onNodePointerUp ==
    /\ UNCHANGED <<calc, viewVars>>
    /\ renderedKeys # {}
    /\ dragStateRef' = NoKey
    /\ last' = Event("up", dragStateRef, FALSE)
    /\ fitCall' = NoLayout
    /\ UNCHANGED <<data, centerKey, expansionPath, measured, prevExpansionLength,
                   timers, cleanupTimer, positions, readOnly, config>>

\* the host passes another value of readOnly
ReadOnlyChange ==
    /\ UNCHANGED <<calc, viewVars>>
    /\ readOnly' = ~readOnly
    /\ last' = Event("readOnly", NoKey, FALSE)
    /\ fitCall' = NoLayout
    /\ UNCHANGED <<data, centerKey, expansionPath, measured, prevExpansionLength,
                   timers, cleanupTimer, positions, dragStateRef, config>>

\* the host passes a config with another maxDepth, childSpreadDeg or radii:
\* baseLayout depends on them, and the effect on [baseLayout] stores the
\* recomputed map; the auto-fit effect depends on [expansionPath] only
ConfigChange(c) ==
    /\ UNCHANGED <<calc, viewVars>>
    /\ c # config
    /\ config' = c
    /\ positions' = positionsOf(data, expansionPath)
    /\ last' = Event("config", NoKey, FALSE)
    /\ fitCall' = NoLayout
    /\ UNCHANGED <<data, centerKey, expansionPath, measured, prevExpansionLength,
                   timers, cleanupTimer, dragStateRef, readOnly>>

\* wheel zoom or pan: only the viewport transform changes, which is no input
\* of baseLayout
ZoomPan ==
    /\ UNCHANGED <<calc, viewVars>>
    /\ measured
    /\ last' = Event("zoom", NoKey, FALSE)
    /\ fitCall' = NoLayout
    /\ UNCHANGED <<data, centerKey, expansionPath, measured, prevExpansionLength,
                   timers, cleanupTimer, positions, dragStateRef, readOnly, config>>

AllKeys == Keys \cup {"C", "D"}

\* no call of a pure function is recorded
NoCalc == [op |-> "none", in |-> <<>>, out |-> <<>>]

Init ==
    /\ calc = NoCalc
    /\ data \in Graphs
    /\ centerKey \in Keys
    /\ expansionPath = <<centerKey>>
    /\ measured = FALSE
    /\ prevExpansionLength = 1
    /\ timers = {}
    /\ cleanupTimer = 0
    /\ fitCall = NoLayout
    /\ last = Event("init", NoKey, FALSE)
    /\ positions = positionsOf(data, <<centerKey>>)
    /\ dragStateRef = NoKey
    /\ readOnly = FALSE
    /\ config = defaultConfig
    /\ ViewUnmeasured

Next ==
    \/ \E n \in AllKeys : onExpandClick(n)
    \/ \E n \in AllKeys : onBadgeClick(n)
    \/ \E d \in NewData, c \in Keys : PropsChange(d, c)
    \/ \E m \in BOOLEAN : Resize(m)
    \/ \E t \in timers : TimerFire(t)

Spec == Init /\ [][Next]_vars

\* the event loop runs a timer that stays pending
FairSpec == Spec /\ WF_vars(\E t \in timers : TimerFire(t))

(***************************************************************************)
(* The component with its pointer handlers, on the star graph: the         *)
(* expansion handlers, resize, config and readOnly changes, zoom and the   *)
(* drag of a node.                                                         *)
(***************************************************************************)
DragInit ==
    /\ calc = NoCalc
    /\ data = StarGraph
    /\ centerKey = "CENTER"
    /\ expansionPath = <<centerKey>>
    /\ measured = FALSE
    /\ prevExpansionLength = 1
    /\ timers = {}
    /\ cleanupTimer = 0
    /\ fitCall = NoLayout
    /\ last = Event("init", NoKey, FALSE)
    /\ positions = positionsOf(data, <<centerKey>>)
    /\ dragStateRef = NoKey
    /\ readOnly \in BOOLEAN
    /\ config = defaultConfig
    /\ ViewUnmeasured

DragNext ==
    \/ \E n \in AllKeys : onExpandClick(n)
    \/ \E n \in AllKeys : onBadgeClick(n)
    \/ PropsChange(data, centerKey)
    \/ \E m \in BOOLEAN : Resize(m)
    \/ \E c \in Configs : ConfigChange(c)
    \/ ZoomPan
    \/ \E key \in AllKeys : onNodePointerDown(key)
    \/ \E pt \in DragPoints : onNodePointerMove(pt)
    \/ onNodePointerUp
    \/ ReadOnlyChange

DragSpec == DragInit /\ [][DragNext]_vars

(***************************************************************************)
(* computeTreeLevels: breadth-first level assignment from the focus.  The  *)
(* returned Map is the sequence of its entries [key, depth, parent] in     *)
(* insertion order; parent is NoKey for the entry of the focus.            *)
(***************************************************************************)
\* adj.get(k) after the edge loop: one element per endpoint of an edge at k
\* whose two endpoints are both node keys, in edge order (from-side first)
RECURSIVE adjOf(_, _, _)
adjOf(nodeSet, edges, k) ==
    IF edges = <<>> THEN <<>>
    ELSE LET e == edges[Len(edges)]
             rest == adjOf(nodeSet, SubSeq(edges, 1, Len(edges) - 1), k)
         IN IF e.from \notin nodeSet \/ e.to \notin nodeSet THEN rest
            ELSE rest \o (IF e.from = k THEN <<e.to>> ELSE <<>>)
                      \o (IF e.to = k THEN <<e.from>> ELSE <<>>)

LevelKeys(levels) == {levels[i].key : i \in DOMAIN levels}

\* levels.get(k), for a key of the map
LevelInfo(levels, k) == levels[CHOOSE i \in DOMAIN levels : levels[i].key = k]

\* variant: the child gets the depth of the node it was discovered from
childInfoSameDepth(nb, cur, curInfo) ==
    [key |-> nb, depth |-> curInfo.depth, parent |-> cur]

\* res.set(nb, { depth: curInfo.depth + 1, parent: cur })
childInfo(nb, cur, curInfo) ==
    [key |-> nb, depth |-> curInfo.depth + 1, parent |-> cur]

\* variant: a node at the depth bound is still expanded
atDepthBoundStrict(curInfo, maxDepth) == curInfo.depth > maxDepth

\* if (curInfo.depth >= maxDepth) continue
atDepthBound(curInfo, maxDepth) == curInfo.depth >= maxDepth

\* the for loop over adj.get(cur): returns <<q, res>>
RECURSIVE visitNeighbours(_, _, _, _)
visitNeighbours(nbs, cur, q, res) ==
    IF nbs = <<>> THEN <<q, res>>
    ELSE LET nb == Head(nbs)
         IN IF nb \in LevelKeys(res)
            THEN visitNeighbours(Tail(nbs), cur, q, res)
            ELSE visitNeighbours(Tail(nbs), cur, Append(q, nb),
                                 Append(res, childInfo(nb, cur, LevelInfo(res, cur))))

\* the while loop over the queue
RECURSIVE bfsLoop(_, _, _, _, _)
bfsLoop(nodeSet, edges, maxDepth, q, res) ==
    IF q = <<>> THEN res
    ELSE LET cur == Head(q)
         IN IF atDepthBound(LevelInfo(res, cur), maxDepth)
            THEN bfsLoop(nodeSet, edges, maxDepth, Tail(q), res)
            ELSE LET r == visitNeighbours(adjOf(nodeSet, edges, cur), cur, Tail(q), res)
                 IN bfsLoop(nodeSet, edges, maxDepth, r[1], r[2])

computeTreeLevels(nodes, edges, focus, maxDepth) ==
    LET nodeSet == KeysOf(nodes)
    IN IF focus \notin nodeSet THEN <<>>
       ELSE bfsLoop(nodeSet, edges, maxDepth, <<focus>>,
                    <<[key |-> focus, depth |-> 0, parent |-> NoKey]>>)

(***************************************************************************)
(* Calls of computeTreeLevels on bounded inputs.                           *)
(***************************************************************************)
MaxLevelEdges == 2
MaxLevelDepth == 2

\* every variable of the component, left as it is by a call of a pure function
componentVars == <<data, centerKey, expansionPath, measured, prevExpansionLength,
                   timers, cleanupTimer, fitCall, last, positions, dragStateRef,
                   readOnly, config, viewVars>>

\* the component before it is mounted: only calc is in use
Unmounted ==
    /\ data = StarGraph
    /\ centerKey = "CENTER"
    /\ expansionPath = <<centerKey>>
    /\ measured = FALSE
    /\ prevExpansionLength = 1
    /\ timers = {}
    /\ cleanupTimer = 0
    /\ fitCall = NoLayout
    /\ last = Event("init", NoKey, FALSE)
    /\ positions = positionsOf(data, <<centerKey>>)
    /\ dragStateRef = NoKey
    /\ readOnly = FALSE
    /\ config = defaultConfig
    /\ ViewUnmeasured

LevelGraphs ==
    [nodes : {MkNodes(SelectSeq(KeyOrder, LAMBDA k : k # m), NoKey) : m \in {NoKey, "CENTER"}},
     edges : UNION {[1..n -> Pairs] : n \in 0..MaxLevelEdges}]
        \cup NamedGraphs

LevelsInit ==
    /\ Unmounted
    /\ \E g \in LevelGraphs, f \in Keys, md \in 1..MaxLevelDepth :
          calc = [op |-> "input",
                  in |-> [nodes |-> g.nodes, edges |-> g.edges, focus |-> f, maxDepth |-> md],
                  out |-> <<>>]

CallComputeTreeLevels ==
    /\ calc.op = "input"
    /\ calc' = [calc EXCEPT !.op = "levels",
                            !.out = computeTreeLevels(calc.in.nodes, calc.in.edges,
                                                      calc.in.focus, calc.in.maxDepth)]
    /\ UNCHANGED componentVars

LevelsNext == CallComputeTreeLevels

LevelsSpec == LevelsInit /\ [][LevelsNext]_vars

(***************************************************************************)
(* The layout calculators.  A returned Map<string, NodePos> is a function  *)
(* on its key set.  Sines and cosines are not evaluated: a NodePos is kept *)
(* as the terms the code computes it from,                                 *)
(*   [at |-> "origin"]                          the point (0, 0)           *)
(*   [at |-> "circle", idx, of]                 angle idx/of of a turn at   *)
(*                                              radius radii[1]            *)
(*   [at |-> "rect", ring, idx, of, point]      a point of a rectangle ring *)
(*   [at |-> "arc", from, idx, of, num, den, level]                        *)
(*        at distance radii[level] from the point from, in the direction   *)
(*        atan2(from) + num/den degrees                                    *)
(*   [at |-> "outward" or "comb", from, idx, of, level]                    *)
(*        the two placements of the rectangle-ring mode                    *)
(***************************************************************************)
\* the keys of the model in the order of String.prototype.localeCompare
SortedKeys ==
    <<"A", "B", "C", "CENTER", "D", "E", "F", "G",
      "H01", "H02", "H03", "H04", "H05", "H06", "H07", "H08", "H09", "H10",
      "H11", "H12", "H13", "H14", "H15", "H16", "H17", "H18", "H19", "H20">>

\* arr.sort((a, b) => a.localeCompare(b)), for an array of distinct keys
sortKeys(arr) == SelectSeq(SortedKeys, LAMBDA k : k \in Range(arr))

\* byDepth[depth]: the keys of the node list, in its order, at that depth
byDepth(nodes, levels, depth) ==
    LET at == SelectSeq(nodes, LAMBDA n : n.key \in LevelKeys(levels)
                                           /\ LevelInfo(levels, n.key).depth = depth)
    IN [i \in DOMAIN at |-> at[i].key]

\* childrenByParent.get(parentKey): the children in the order of levels.entries()
childrenByParent(levels, parentKey) ==
    LET es == SelectSeq(levels, LAMBDA e : e.parent = parentKey)
    IN [i \in DOMAIN es |-> es[i].key]

Origin == [at |-> "origin"]

\* positions.get(parentKey) || { x: 0, y: 0 }
parentPosOf(pos, parentKey) == IF parentKey \in DOMAIN pos THEN pos[parentKey] ELSE Origin

\* the depth-1 circle: a = (i / Math.max(1, lvl1.length)) * 2 PI
circlePositions(lvl1) ==
    [k \in Range(lvl1) |-> [at |-> "circle", idx |-> indexOf(lvl1, k) - 1, of |-> Len(lvl1)]]

\* angle = parentAngle - spread / 2 + t * spread with
\* t = siblings.length === 1 ? 0 : idx / (siblings.length - 1):
\* the offset from parentAngle in degrees, as the fraction num / den
arcPosition(parentPos, siblings, key, childSpreadDeg, depth) ==
    LET idx == indexOf(siblings, key) - 1
        tNum == IF Len(siblings) = 1 THEN 0 ELSE idx
        tDen == IF Len(siblings) = 1 THEN 1 ELSE Len(siblings) - 1
    IN [at |-> "arc", from |-> parentPos, idx |-> idx, of |-> Len(siblings),
        num |-> childSpreadDeg * (2 * tNum - tDen), den |-> 2 * tDen, level |-> depth]

\* one pass of the loop over the depths of computeRadialLayout
simpleDepthPass(nodes, levels, maxDepth, childSpreadDeg, pos, depth) ==
    IF depth > maxDepth THEN pos
    ELSE LET keys == byDepth(nodes, levels, depth)
             placed == {k \in Range(keys) : LevelInfo(levels, k).parent # NoKey}
         IN [k \in DOMAIN pos \cup placed |->
                IF k \in placed
                THEN LET parentKey == LevelInfo(levels, k).parent
                     IN arcPosition(parentPosOf(pos, parentKey),
                                    childrenByParent(levels, parentKey), k,
                                    childSpreadDeg, depth)
                ELSE pos[k]]

\* computeRadialLayout (simple mode): for (const depth of [2,3])
computeRadialLayout(nodes, edges, focus, maxDepth, childSpreadDeg) ==
    LET levels == computeTreeLevels(nodes, edges, focus, maxDepth)
        lvl1 == byDepth(nodes, levels, 1)
        pos0 == [k \in {focus} |-> Origin]
        pos1 == [k \in DOMAIN pos0 \cup Range(lvl1) |->
                    IF k \in Range(lvl1) THEN circlePositions(lvl1)[k] ELSE pos0[k]]
        pos2 == simpleDepthPass(nodes, levels, maxDepth, childSpreadDeg, pos1, 2)
    IN simpleDepthPass(nodes, levels, maxDepth, childSpreadDeg, pos2, 3)

(***************************************************************************)
(* Rectangle rings.  Fractions are pairs [num, den]; a perimeter point is  *)
(* [x, y, den], the point (x / den, y / den).                              *)
(***************************************************************************)
\* RING_U_OFFSET = 0.015, in thousandths
RING_U_OFFSET == 15

\* clamp(n, min, max)
clamp(n, min, max) ==
    LET low == IF n < max THEN n ELSE max
    IN IF low > min THEN low ELSE min

\* Math.round of the fraction num / den (den > 0, num >= 0)
round(num, den) == (2 * num + den) \div (2 * den)

\* pointOnRectPerimeter(u, halfW, halfH) for u = u.num / u.den >= 0
pointOnRectPerimeter(u, halfW, halfH) ==
    LET W == halfW * 2
        H == halfH * 2
        perim == 2 * (W + H)
        den == u.den
        d1 == (u.num % den) * perim
        d2 == d1 - H * den
        d3 == d2 - W * den
        d4 == d3 - H * den
    IN IF d1 <= H * den THEN [x |-> halfW * den, y |-> d1 - halfH * den, den |-> den]
       ELSE IF d2 <= W * den THEN [x |-> halfW * den - d2, y |-> halfH * den, den |-> den]
       ELSE IF d3 <= H * den THEN [x |-> -(halfW * den), y |-> halfH * den - d3, den |-> den]
       ELSE [x |-> d4 - halfW * den, y |-> -(halfH * den), den |-> den]

\* variant: the outer ring takes every depth-1 node
outerKeysAll(lvl1, expandable, outerRatio) == lvl1

\* outerKeys: all expandable depth-1 nodes, then non-expandable ones while the
\* ring has fewer than outerCount members; outerRatio is in percent
outerKeysOf(lvl1, expandable, outerRatio) ==
    LET expandableLvl1 == SelectSeq(lvl1, LAMBDA k : k \in expandable)
        nonExpandableLvl1 == SelectSeq(lvl1, LAMBDA k : k \notin expandable)
        ratio == clamp(outerRatio, 5, 95)
        rounded == round(Len(lvl1) * ratio, 100)
        outerCount == IF rounded > 1 THEN rounded ELSE 1
        room == IF outerCount > Len(expandableLvl1) THEN outerCount - Len(expandableLvl1) ELSE 0
        taken == IF room < Len(nonExpandableLvl1) THEN room ELSE Len(nonExpandableLvl1)
    IN expandableLvl1 \o SubSeq(nonExpandableLvl1, 1, taken)

\* innerKeys = lvl1.filter(k => !outerSet.has(k))
innerKeysOf(lvl1, outerKeys) == SelectSeq(lvl1, LAMBDA k : k \notin Range(outerKeys))

\* the positions of the two rings; l1 = [type, halfW, halfH, outerRatio, innerScale],
\* the last two in percent
ringPositions(lvl1, expandable, l1) ==
    LET halfW == IF l1.halfW > 120 THEN l1.halfW ELSE 120
        halfH == IF l1.halfH > 120 THEN l1.halfH ELSE 120
        innerScale == clamp(l1.innerScale, 20, 98)
        outerKeys == outerKeysOf(lvl1, expandable, l1.outerRatio)
        innerKeys == innerKeysOf(lvl1, outerKeys)
        outerPoint(i) == pointOnRectPerimeter(
                             [num |-> 1000 * i + RING_U_OFFSET * Len(outerKeys),
                              den |-> 1000 * Len(outerKeys)], halfW, halfH)
        innerPoint(i) == LET p == pointOnRectPerimeter([num |-> i, den |-> Len(innerKeys)],
                                                       halfW, halfH)
                         IN [x |-> p.x * innerScale, y |-> p.y * innerScale, den |-> p.den * 100]
    IN [k \in Range(outerKeys) \cup Range(innerKeys) |->
           IF k \in Range(outerKeys)
           THEN [at |-> "rect", ring |-> "outer", idx |-> indexOf(outerKeys, k) - 1,
                 of |-> Len(outerKeys), point |-> outerPoint(indexOf(outerKeys, k) - 1)]
           ELSE [at |-> "rect", ring |-> "inner", idx |-> indexOf(innerKeys, k) - 1,
                 of |-> Len(innerKeys), point |-> innerPoint(indexOf(innerKeys, k) - 1)]]

\* one pass of the loop over the depths of computeRadialLayoutAdvanced
advancedDepthPass(nodes, levels, maxDepth, childSpreadDeg, expandable, l1, pos, depth) ==
    IF depth > maxDepth THEN pos
    ELSE LET keys == byDepth(nodes, levels, depth)
             placed == {k \in Range(keys) : LevelInfo(levels, k).parent # NoKey}
             place(k) ==
                 LET parentKey == LevelInfo(levels, k).parent
                     parentPos == parentPosOf(pos, parentKey)
                     siblings == sortKeys(childrenByParent(levels, parentKey))
                 IN IF l1.type = "rectRings"
                    THEN [at |-> IF parentKey \in KeysOf(nodes) /\ parentKey \in expandable
                                 THEN "outward" ELSE "comb",
                          from |-> parentPos, idx |-> indexOf(siblings, k) - 1,
                          of |-> Len(siblings), level |-> depth]
                    ELSE arcPosition(parentPos, siblings, k, childSpreadDeg, depth)
         IN [k \in DOMAIN pos \cup placed |-> IF k \in placed THEN place(k) ELSE pos[k]]

\* computeRadialLayoutAdvanced: for (const depth of [6, 7])
computeRadialLayoutAdvanced(nodes, edges, focus, maxDepth, childSpreadDeg, expandable, l1) ==
    LET levels == computeTreeLevels(nodes, edges, focus, maxDepth)
        lvl1 == sortKeys(byDepth(nodes, levels, 1))
        pos0 == [k \in {focus} |-> Origin]
        ring == IF l1.type = "rectRings" THEN ringPositions(lvl1, expandable, l1)
                ELSE circlePositions(lvl1)
        pos1 == [k \in DOMAIN pos0 \cup Range(lvl1) |->
                    IF k \in Range(lvl1) THEN ring[k] ELSE pos0[k]]
        pos6 == advancedDepthPass(nodes, levels, maxDepth, childSpreadDeg, expandable, l1, pos1, 6)
    IN advancedDepthPass(nodes, levels, maxDepth, childSpreadDeg, expandable, l1, pos6, 7)

\* computeRadialLayoutAdaptive: the simple layout below rectRingsMinLvl1 (minLvl1)
\* depth-1 nodes, the advanced layout from there on
computeRadialLayoutAdaptive(nodes, edges, focus, maxDepth, childSpreadDeg, expandable, l1, minLvl1) ==
    LET levels == computeTreeLevels(nodes, edges, focus, 1)
        lvl1Count == Cardinality({i \in DOMAIN levels : levels[i].depth = 1})
    IN IF lvl1Count < minLvl1
       THEN computeRadialLayout(nodes, edges, focus, maxDepth, childSpreadDeg)
       ELSE computeRadialLayoutAdvanced(nodes, edges, focus, maxDepth, childSpreadDeg,
                                        expandable, l1)

(***************************************************************************)
(* Calls of the layout calculators on bounded inputs.                      *)
(***************************************************************************)
\* a node list with the given set of expandable keys
MkNodesOf(ks, expandable) ==
    [i \in 1..Len(ks) |-> [key |-> ks[i], expandable |-> ks[i] \in expandable]]

\* the star graph with its node list in another order
ReversedStarGraph ==
    [nodes |-> MkNodes(<<"B", "CENTER", "A">>, NoKey),
     edges |-> <<Edge("CENTER", "B"), Edge("CENTER", "A")>>]

\* a neighbour A of the root with the children C and B, discovered in that order
FanGraph ==
    [nodes |-> MkNodes(<<"CENTER", "A", "B", "C">>, NoKey),
     edges |-> <<Edge("CENTER", "A"), Edge("A", "C"), Edge("A", "B")>>]

\* a chain of eight nodes: G is at depth 7
ChainGraph ==
    [nodes |-> MkNodes(<<"CENTER", "A", "B", "C", "D", "E", "F", "G">>, NoKey),
     edges |-> <<Edge("CENTER", "A"), Edge("A", "B"), Edge("B", "C"), Edge("C", "D"),
                 Edge("D", "E"), Edge("E", "F"), Edge("F", "G")>>]

\* a root with five or four neighbours, any set of them expandable
RingGraphs ==
    {[nodes |-> MkNodesOf(<<"CENTER", "E", "D", "C", "B", "A">>, x),
      edges |-> <<Edge("CENTER", "A"), Edge("CENTER", "B"), Edge("CENTER", "C"),
                  Edge("CENTER", "D"), Edge("CENTER", "E")>>] :
        x \in SUBSET {"A", "B", "C", "D", "E"}}
    \cup {[nodes |-> MkNodesOf(<<"CENTER", "A", "B", "C", "D">>, x),
           edges |-> <<Edge("CENTER", "A"), Edge("CENTER", "B"), Edge("CENTER", "C"),
                       Edge("CENTER", "D")>>] :
            x \in {{}, {"A", "B", "C", "D"}}}

LayoutGraphs ==
    SmallGraphs \cup NamedGraphs
        \cup {StarGraph, ReversedStarGraph, FanGraph, ChainGraph} \cup RingGraphs

\* maxDepth: 1 | 2 | 3 | 4 | 5 | 6 | 7
MaxDepths == 1..7

\* childSpreadDeg: 0, and the value of defaultConfig
SpreadDegs == {0, 80}

\* level1Layout: the circle, and the rectangle rings of the component
\* (halfW = halfH = 200, innerScale 0.72) with outerRatio 0.05, 0.55 and 1
Level1Layouts ==
    {[type |-> "circle", halfW |-> 200, halfH |-> 200, outerRatio |-> 55, innerScale |-> 72]}
    \cup {[type |-> "rectRings", halfW |-> 200, halfH |-> 200, outerRatio |-> r,
           innerScale |-> 72] : r \in {5, 55, 100}}

\* rectRingsMinLvl1: a threshold small graphs reach, and the component's 20
MinLvl1s == {2, 20}

\* isExpandable: (n) => n.expandable && n.key !== centerKey
expandableKeys(nodes, root) ==
    {nodes[i].key : i \in {j \in DOMAIN nodes : nodes[j].expandable /\ nodes[j].key # root}}

LayoutInit ==
    /\ Unmounted
    /\ \E g \in LayoutGraphs, f \in Keys, md \in MaxDepths, sp \in SpreadDegs :
          calc = [op |-> "input",
                  in |-> [nodes |-> g.nodes, edges |-> g.edges, focus |-> f, maxDepth |-> md,
                          childSpreadDeg |-> sp, l1 |-> <<>>, rectRingsMinLvl1 |-> 0],
                  out |-> <<>>]

CallComputeRadialLayout ==
    /\ calc.op = "input"
    /\ calc' = [calc EXCEPT !.op = "simple",
                            !.out = computeRadialLayout(calc.in.nodes, calc.in.edges,
                                        calc.in.focus, calc.in.maxDepth,
                                        calc.in.childSpreadDeg)]
    /\ UNCHANGED componentVars

CallComputeRadialLayoutAdvanced(l1) ==
    /\ calc.op = "input"
    /\ calc' = [op |-> "advanced",
                in |-> [calc.in EXCEPT !.l1 = l1],
                out |-> computeRadialLayoutAdvanced(calc.in.nodes, calc.in.edges,
                            calc.in.focus, calc.in.maxDepth, calc.in.childSpreadDeg,
                            expandableKeys(calc.in.nodes, calc.in.focus), l1)]
    /\ UNCHANGED componentVars

CallComputeRadialLayoutAdaptive(l1, rectRingsMinLvl1) ==
    /\ calc.op = "input"
    /\ calc' = [op |-> "adaptive",
                in |-> [calc.in EXCEPT !.l1 = l1, !.rectRingsMinLvl1 = rectRingsMinLvl1],
                out |-> computeRadialLayoutAdaptive(calc.in.nodes, calc.in.edges,
                            calc.in.focus, calc.in.maxDepth, calc.in.childSpreadDeg,
                            expandableKeys(calc.in.nodes, calc.in.focus), l1,
                            rectRingsMinLvl1)]
    /\ UNCHANGED componentVars

LayoutNext ==
    \/ CallComputeRadialLayout
    \/ \E l1 \in Level1Layouts : CallComputeRadialLayoutAdvanced(l1)
    \/ \E l1 \in {l \in Level1Layouts : l.outerRatio = 55}, m \in MinLvl1s :
          CallComputeRadialLayoutAdaptive(l1, m)

LayoutSpec == LayoutInit /\ [][LayoutNext]_vars

(***************************************************************************)
(* Calls of pointOnRectPerimeter: u in thousandths, the half sizes from    *)
(* the floor of 120 the ring layout applies and the scenario's 200.        *)
(***************************************************************************)
UDen == 1000
HalfSizes == {120, 200}

PerimeterInit ==
    /\ Unmounted
    /\ \E n \in 0..(UDen - 1), w \in HalfSizes, h \in HalfSizes :
          calc = [op |-> "input",
                  in |-> [u |-> [num |-> n, den |-> UDen], halfW |-> w, halfH |-> h],
                  out |-> <<>>]

CallPointOnRectPerimeter ==
    /\ calc.op = "input"
    /\ calc' = [calc EXCEPT !.op = "perimeter",
                            !.out = pointOnRectPerimeter(calc.in.u, calc.in.halfW,
                                                         calc.in.halfH)]
    /\ UNCHANGED componentVars

PerimeterNext == CallPointOnRectPerimeter

PerimeterSpec == PerimeterInit /\ [][PerimeterNext]_vars

(***************************************************************************)
(* Grid clustering.  A world point is [x, y] with integer coordinates; a   *)
(* group key `G:cx,cy` is the pair <<cx, cy>>.  Bounds are kept in thirds  *)
(* of a world unit (the padding is a third of the node box) and centers in *)
(* sixths.                                                                 *)
(***************************************************************************)
NODE_BOX_WIDTH == 90
NODE_BOX_HEIGHT == 50

\* variant: the quotient is truncated toward zero
floorTrunc(a, b) == IF a >= 0 THEN a \div b ELSE -((-a) \div b)

\* Math.floor(a / b) for b > 0
floor(a, b) == a \div b

\* gKey of a point
cellOf(p, gridSize) == <<floor(p.x, gridSize), floor(p.y, gridSize)>>

\* the order of localeCompare on the text of a cell coordinate of one digit:
\* "-1" < "-2" < "0" < "1" < "2"
coordRank(c) == IF c < 0 THEN -c - 100 ELSE c

\* a.key.localeCompare(b.key) < 0
keyBefore(a, b) ==
    \/ coordRank(a[1]) < coordRank(b[1])
    \/ a[1] = b[1] /\ coordRank(a[2]) < coordRank(b[2])

\* the group keys in the order of groups.sort
RECURSIVE sortCells(_)
sortCells(cells) ==
    IF cells = {} THEN <<>>
    ELSE LET first == CHOOSE c \in cells : \A d \in cells \ {c} : keyBefore(c, d)
         IN <<first>> \o sortCells(cells \ {first})

Min(S) == CHOOSE m \in S : \A n \in S : m <= n
Max(S) == CHOOSE m \in S : \A n \in S : m >= n

computeGridClusters(nodes, pos, gridSize) ==
    LET placed == SelectSeq(nodes, LAMBDA n : n.key \in DOMAIN pos)
        cells == {cellOf(pos[placed[i].key], gridSize) : i \in DOMAIN placed}
        membersOf(g) == LET ms == SelectSeq(placed, LAMBDA n : cellOf(pos[n.key], gridSize) = g)
                        IN [i \in DOMAIN ms |-> ms[i].key]
        boundsOf(g) ==
            LET ms == Range(membersOf(g))
            IN [minX |-> Min({3 * pos[k].x - NODE_BOX_WIDTH : k \in ms}),
                minY |-> Min({3 * pos[k].y - NODE_BOX_HEIGHT : k \in ms}),
                maxX |-> Max({3 * pos[k].x + NODE_BOX_WIDTH : k \in ms}),
                maxY |-> Max({3 * pos[k].y + NODE_BOX_HEIGHT : k \in ms})]
        centerOf(g) == [x |-> boundsOf(g).minX + boundsOf(g).maxX,
                        y |-> boundsOf(g).minY + boundsOf(g).maxY]
        sorted == sortCells(cells)
    IN [groups |-> [i \in DOMAIN sorted |->
                       [key |-> sorted[i], members |-> membersOf(sorted[i]),
                        bounds |-> boundsOf(sorted[i]), center |-> centerOf(sorted[i])]],
        nodeToGroup |-> [k \in KeysOf(placed) |-> cellOf(pos[k], gridSize)],
        groupPositions |-> [g \in cells |-> centerOf(g)],
        groupBounds |-> [g \in cells |-> boundsOf(g)]]

\* groupSizes: the number of members of every group of cluster.groups
groupSizesOf(groups) ==
    [g \in {groups[i].key : i \in DOMAIN groups} |->
        Len(groups[CHOOSE i \in DOMAIN groups : groups[i].key = g].members)]

\* variant: an edge between two groups of one member is aggregated too
isClusterEdgeAnySize(gFrom, gTo, groupSizes) == gFrom # gTo

\* the conditions under which an edge between the groups gFrom and gTo is
\* counted; groupSizes.get(g) ?? 1
isClusterEdge(gFrom, gTo, groupSizes) ==
    LET fromSize == IF gFrom \in DOMAIN groupSizes THEN groupSizes[gFrom] ELSE 1
        toSize == IF gTo \in DOMAIN groupSizes THEN groupSizes[gTo] ELSE 1
    IN gFrom # gTo /\ ~(fromSize = 1 /\ toSize = 1)

\* the first occurrences of the elements of a sequence, in order
RECURSIVE firstOccurrences(_)
firstOccurrences(q) ==
    IF q = <<>> THEN <<>>
    ELSE LET front == firstOccurrences(SubSeq(q, 1, Len(q) - 1))
         IN IF q[Len(q)] \in Range(front) THEN front ELSE Append(front, q[Len(q)])

\* computeAggregatedEdges: one element per ordered pair of groups, in the
\* insertion order of the two nested Maps
computeAggregatedEdges(edges, nodeToGroup, groupSizes) ==
    LET counted == SelectSeq(edges, LAMBDA e :
                       /\ e.from \in DOMAIN nodeToGroup
                       /\ e.to \in DOMAIN nodeToGroup
                       /\ isClusterEdge(nodeToGroup[e.from], nodeToGroup[e.to], groupSizes))
        pairs == firstOccurrences([i \in DOMAIN counted |->
                     <<nodeToGroup[counted[i].from], nodeToGroup[counted[i].to]>>])
        froms == firstOccurrences([i \in DOMAIN pairs |-> pairs[i][1]])
        countOf(pr) == Cardinality({i \in DOMAIN counted :
                           <<nodeToGroup[counted[i].from], nodeToGroup[counted[i].to]>> = pr})
        RECURSIVE byFrom(_)
        byFrom(fs) == IF fs = <<>> THEN <<>>
                      ELSE SelectSeq(pairs, LAMBDA pr : pr[1] = Head(fs)) \o byFrom(Tail(fs))
        res == byFrom(froms)
    IN [i \in DOMAIN res |-> [from |-> res[i][1], to |-> res[i][2], count |-> countOf(res[i])]]

(***************************************************************************)
(* baseLayout of the radial layout, in the two copies of the component:    *)
(* the layout of the visible nodes around the focus, and in the copy with  *)
(* the connections map the breadcrumb positions of the path keys that the  *)
(* calculator left out.                                                    *)
(***************************************************************************)
RECT_RINGS_MIN_LVL1 == 20

\* level1Layout of baseLayout in a viewport of 800 x 600
baseLevel1Layout ==
    [type |-> "rectRings", halfW |-> 310, halfH |-> 250, outerRatio |-> 55, innerScale |-> 72]

\* the point given to the path key at index idx when the calculator has none
breadcrumbPoint(path, idx) ==
    LET distanceFromFocus == Len(path) - idx
    IN IF distanceFromFocus > 0
       THEN [at |-> "breadcrumb", x |-> 180 * distanceFromFocus, y |-> -400]
       ELSE Origin

\* expansionPath.forEach: every path key missing from res is set once
withBreadcrumbs(res, path) ==
    [k \in DOMAIN res \cup Range(path) |->
        IF k \in DOMAIN res THEN res[k] ELSE breadcrumbPoint(path, indexOf(path, k))]

\* baseLayout of NetworkGraph.tsx: the result of the calculator as it is
baseLayoutOlder(d, root, path, cfg) ==
    LET vnodes == visibleNodesByEdgesOf(d, path)
    IN computeRadialLayoutAdaptive(vnodes, visibleEdgesFrom(d, vnodes), focusOf(path),
                                   cfg.maxDepth, cfg.childSpreadDeg,
                                   expandableKeys(vnodes, root), baseLevel1Layout,
                                   RECT_RINGS_MIN_LVL1)

\* baseLayout of the copy with the connections map
baseLayout(d, root, path, cfg) ==
    LET vnodes == visibleNodesOf(d, path)
    IN withBreadcrumbs(
           computeRadialLayoutAdaptive(vnodes, visibleEdgesFrom(d, vnodes), focusOf(path),
                                       cfg.maxDepth, cfg.childSpreadDeg,
                                       expandableKeys(vnodes, root), baseLevel1Layout,
                                       RECT_RINGS_MIN_LVL1),
           path)

MaxTrail == 5

HubLeaves ==
    <<"H01", "H02", "H03", "H04", "H05", "H06", "H07", "H08", "H09", "H10",
      "H11", "H12", "H13", "H14", "H15", "H16", "H17", "H18", "H19", "H20">>

\* CENTER -> A -> B, and B joined to twenty leaves
HubGraph ==
    [nodes |-> MkNodes(<<"CENTER", "A", "B">> \o HubLeaves, NoKey),
     edges |-> <<Edge("CENTER", "A"), Edge("A", "B")>>
               \o [i \in DOMAIN HubLeaves |-> Edge("B", HubLeaves[i])]]

BaseGraphs == {ScenarioGraph, CycleGraph, ChainGraph, HubGraph}

\* the paths that expand clicks build from [root]: each click appends a node
\* other than the root that is connected to the focus
RECURSIVE Trails(_, _, _)
Trails(d, root, n) ==
    IF n <= 1 THEN {<<root>>}
    ELSE LET shorter == Trails(d, root, n - 1)
         IN shorter \cup UNION {{Append(p, k) : k \in {c \in NodeKeys(d) :
                                       c # root /\ hasConnection(d, focusOf(p), c)}} :
                                   p \in shorter}

BaseInit ==
    /\ Unmounted
    /\ \E d \in BaseGraphs, cfg \in Configs :
          \E path \in Trails(d, "CENTER", MaxTrail) :
             calc = [op |-> "input",
                     in |-> [data |-> d, centerKey |-> "CENTER", expansionPath |-> path,
                             config |-> cfg],
                     out |-> <<>>]

CallBaseLayout ==
    /\ calc.op = "input"
    /\ calc' = [calc EXCEPT !.op = "baseLayout",
                            !.out = baseLayout(calc.in.data, calc.in.centerKey,
                                               calc.in.expansionPath, calc.in.config)]
    /\ UNCHANGED componentVars

CallBaseLayoutOlder ==
    /\ calc.op = "input"
    /\ calc' = [calc EXCEPT !.op = "baseLayoutOlder",
                            !.out = baseLayoutOlder(calc.in.data, calc.in.centerKey,
                                                    calc.in.expansionPath, calc.in.config)]
    /\ UNCHANGED componentVars

BaseNext == CallBaseLayout \/ CallBaseLayoutOlder

BaseSpec == BaseInit /\ [][BaseNext]_vars

(***************************************************************************)
(* Calls of the clustering functions, as the cluster, groupSizes and       *)
(* aggregatedEdges memos of the component make them.                       *)
(***************************************************************************)
MaxCoord == 2

\* zoomIn and zoomOut are followed while the terms of the scale are this small
MaxScaleTerm == 200
GridSizes == {2, 3}

\* the points a node may be at; the focus is laid out at the origin
Points == [x : (-MaxCoord)..(MaxCoord - 1), y : {-1, 0}]
PositionMaps ==
    {pm \in UNION {[ks -> Points] : ks \in SUBSET Keys} :
        "CENTER" \in DOMAIN pm => pm["CENTER"] = [x |-> 0, y |-> 0]}

ClusterEdgeLists ==
    EdgeLists \cup {<<Edge("A", "B"), Edge("A", "B"), Edge("B", "A")>>,
                    <<Edge("CENTER", "B"), Edge("B", "A"), Edge("A", "CENTER"), Edge("A", "A")>>}

ClusterInit ==
    /\ Unmounted
    /\ \E pm \in PositionMaps, g \in GridSizes, es \in ClusterEdgeLists :
          calc = [op |-> "input",
                  in |-> [nodes |-> MkNodes(KeyOrder, NoKey), edges |-> es,
                          positions |-> pm, gridSize |-> g],
                  out |-> <<>>]

CallComputeGridClusters ==
    /\ calc.op = "input"
    /\ calc' = [calc EXCEPT !.op = "clusters",
                            !.out = [cluster |-> computeGridClusters(calc.in.nodes,
                                                     calc.in.positions, calc.in.gridSize),
                                     aggregatedEdges |-> <<>>]]
    /\ UNCHANGED componentVars

CallComputeAggregatedEdges ==
    /\ calc.op = "clusters"
    /\ calc' = [calc EXCEPT !.op = "aggregated",
                            !.out.aggregatedEdges =
                                computeAggregatedEdges(calc.in.edges,
                                    calc.out.cluster.nodeToGroup,
                                    groupSizesOf(calc.out.cluster.groups))]
    /\ UNCHANGED componentVars

ClusterNext == CallComputeGridClusters \/ CallComputeAggregatedEdges

ClusterSpec == ClusterInit /\ [][ClusterNext]_vars

(***************************************************************************)
(* The view machine: the component seen through its zoom transform.  The   *)
(* expansion path stays at the root; a position map holds world points     *)
(* with integer coordinates.  A requested transform is taken as applied at *)
(* once: the animated transition toward it is not followed.                *)
(***************************************************************************)
ICON_TOP == 4
ICON_SIZE == 24
iconCenterYOffset == -(NODE_BOX_HEIGHT \div 2) + ICON_TOP + ICON_SIZE \div 2
CLUSTER_GRID_SIZE == 160
CLUSTER_ZOOM_THRESHOLD == Rat(9, 10)
fitPadding == 5

\* null
NoBounds == [null |-> TRUE]

\* new Map()
EmptyMap == [k \in {} |-> [x |-> 0, y |-> 0]]

\* variant: an empty map has the bounds of a single point at the origin
computeGraphBoundsOrigin(posMap) == [minX |-> 0, minY |-> 0, maxX |-> 0, maxY |-> 0]

\* computeGraphBounds: the node boxes and the icon centres; with no point
\* the four extremes stay infinite and the result is null
computeGraphBounds(posMap) ==
    IF DOMAIN posMap = {} THEN NoBounds
    ELSE LET xs == UNION {{posMap[k].x - NODE_BOX_WIDTH \div 2,
                           posMap[k].x + NODE_BOX_WIDTH \div 2,
                           posMap[k].x} : k \in DOMAIN posMap}
             ys == UNION {{posMap[k].y - NODE_BOX_HEIGHT \div 2,
                           posMap[k].y + NODE_BOX_HEIGHT \div 2,
                           posMap[k].y + iconCenterYOffset} : k \in DOMAIN posMap}
         IN [minX |-> Min(xs), minY |-> Min(ys), maxX |-> Max(xs), maxY |-> Max(ys)]

\* variant: the first fit is capped like every other fit
fitCapAlwaysMax(didFit) == config.maxZoom

\* the upper limit of the scale of a fit: didInitialFitRef.current ? config.maxZoom : 1
fitCap(didFit) == IF didFit THEN config.maxZoom ELSE One

\* the transform that is current after zoomToFit(posMap) in a viewport sz,
\* with the flag didFit and the transform t before the call
zoomToFitOf(posMap, sz, didFit, t) ==
    IF DOMAIN posMap = {} THEN t
    ELSE IF sz.w = 0 \/ sz.h = 0 THEN t
    ELSE LET b == computeGraphBounds(posMap)
         IN IF b = NoBounds THEN t
            ELSE LET minX == b.minX - fitPadding
                     minY == b.minY - fitPadding
                     maxX == b.maxX + fitPadding
                     maxY == b.maxY + fitPadding
                     contentW == Max({1, maxX - minX})
                     contentH == Max({1, maxY - minY})
                     rawK == RatMin(Rat(sz.w, contentW), Rat(sz.h, contentH))
                     k == clampNumber(rawK, config.minZoom, fitCap(didFit))
                 IN centred(k, Rat(minX + maxX, 2), Rat(minY + maxY, 2))

\* whether zoomToFit(posMap) reaches applyTransform
fitApplies(posMap, sz) ==
    DOMAIN posMap # {} /\ sz.w # 0 /\ sz.h # 0 /\ computeGraphBounds(posMap) # NoBounds

\* history of a step of the view machine: the command, whether a fit ran
\* with the initial-fit flag unset, whether a transform was requested, and
\* the transform before the step
ViewEvent(op, first, applied, before) ==
    [op |-> op, key |-> NoKey, cancelled |-> FALSE,
     first |-> first, applied |-> applied, before |-> before]

Sizes == {[w |-> 800, h |-> 600], [w |-> 400, h |-> 300]}

\* the default configuration, one whose smallest scale is above 1 and one
\* whose largest scale is below 1
ZoomConfigs ==
    {[maxDepth |-> 7, childSpreadDeg |-> 80, minZoom |-> z[1], maxZoom |-> z[2]] :
        z \in {<<Rat(1, 4), Rat(3, 1)>>, <<Rat(3, 2), Rat(3, 1)>>, <<Rat(1, 4), Rat(1, 2)>>}}

Point(x, y) == [x |-> x, y |-> y]

\* layouts of the star graph: the focus alone, two nodes in one grid cell
\* and one far off, and three nodes far apart
Contents ==
    {[k \in {"CENTER"} |-> Point(0, 0)],
     [k \in Keys |-> CASE k = "CENTER" -> Point(0, 0)
                       [] k = "A" -> Point(100, 100)
                       [] k = "B" -> Point(-700, -500)],
     [k \in Keys |-> CASE k = "CENTER" -> Point(0, 0)
                       [] k = "A" -> Point(1500, 0)
                       [] k = "B" -> Point(0, 1100)]}

viewRest == <<data, centerKey, expansionPath, prevExpansionLength, timers,
              cleanupTimer, dragStateRef, readOnly, config, calc>>

ViewInit ==
    /\ calc = NoCalc
    /\ data = StarGraph
    /\ centerKey = "CENTER"
    /\ expansionPath = <<centerKey>>
    /\ measured = FALSE
    /\ prevExpansionLength = 1
    /\ timers = {}
    /\ cleanupTimer = 0
    /\ fitCall = NoLayout
    /\ last = ViewEvent("init", FALSE, FALSE, zoomIdentity)
    /\ positions \in Contents
    /\ dragStateRef = NoKey
    /\ readOnly = FALSE
    /\ config \in ZoomConfigs
    /\ ViewUnmeasured

\* the transform t in the new viewport s: left where it is on the screen at
\* the first measure, otherwise moved by the resize effect so that the world
\* point at the centre of the previous viewport is at the centre of s
resizeKeepCentre(s, t) ==
    IF prevSizeRef = NoSize \/ prevSizeRef = s THEN invert(t, size, s)
    ELSE invert(t, size, prevSizeRef)

\* the ResizeObserver reports the size s: render, then the resize effect and
\* the initial-fit effect
Measure(s) ==
    /\ s # size
    /\ measured' = TRUE
    /\ size' = s
    /\ prevSizeRef' = s
    /\ transform' = IF didInitialFitRef THEN resizeKeepCentre(s, transform)
                    ELSE zoomToFitOf(positions, s, FALSE, resizeKeepCentre(s, transform))
    /\ didInitialFitRef' = TRUE
    /\ fitCall' = IF didInitialFitRef THEN NoLayout ELSE positions
    /\ last' = ViewEvent("measure", ~didInitialFitRef,
                         ~didInitialFitRef \/ (prevSizeRef # NoSize /\ prevSizeRef # s),
                         transform)
    /\ UNCHANGED <<positions, viewRest>>

\* the prop data changes and pm is the layout of the new graph: the effect
\* that resets the initial-fit flag, then the initial-fit effect
DataChange(pm) ==
    /\ positions' = pm
    /\ prevSizeRef' = NoSize
    /\ transform' = zoomToFitOf(pm, size, FALSE, transform)
    /\ didInitialFitRef' = (size # NoSize)
    /\ fitCall' = IF size # NoSize THEN pm ELSE NoLayout
    /\ last' = ViewEvent("data", size # NoSize, size # NoSize, transform)
    /\ UNCHANGED <<measured, size, viewRest>>

zoomBy(factor, op) ==
    /\ transform.k.num <= MaxScaleTerm /\ transform.k.den <= MaxScaleTerm
    /\ transform' =
          IF size = NoSize THEN transform
          ELSE LET worldCenter == invert(transform, size, size)
                   nextK == clampNumber(RatMul(transform.k, factor),
                                        config.minZoom, config.maxZoom)
               IN centred(nextK, worldCenter.wx, worldCenter.wy)
    /\ fitCall' = NoLayout
    /\ last' = ViewEvent(op, FALSE, size # NoSize, transform)
    /\ UNCHANGED <<measured, size, prevSizeRef, didInitialFitRef, positions, viewRest>>

zoomIn == zoomBy(Rat(6, 5), "zoomIn")

zoomOut == zoomBy(Rat(5, 6), "zoomOut")

resetZoom ==
    /\ transform' = IF size = NoSize THEN transform ELSE centred(One, Zero, Zero)
    /\ fitCall' = NoLayout
    /\ last' = ViewEvent("resetZoom", FALSE, size # NoSize, transform)
    /\ UNCHANGED <<measured, size, prevSizeRef, didInitialFitRef, positions, viewRest>>

\* the command zoomToFit(posMap) of the handle and of the key F
FitCommand(posMap) ==
    /\ transform' = zoomToFitOf(posMap, size, didInitialFitRef, transform)
    /\ fitCall' = posMap
    /\ last' = ViewEvent("zoomToFit", ~didInitialFitRef, fitApplies(posMap, size), transform)
    /\ UNCHANGED <<measured, size, prevSizeRef, didInitialFitRef, positions, viewRest>>

\* the transform after zoomToWorldPoint(wx, wy, targetK)
zoomToWorldPoint(wx, wy, targetK) ==
    IF size.w = 0 \/ size.h = 0 THEN transform
    ELSE centred(clampNumber(targetK, config.minZoom, config.maxZoom), wx, wy)

\* the groups drawn as rectangles in cluster mode
clusterRects ==
    IF RatLess(transform.k, CLUSTER_ZOOM_THRESHOLD)
    THEN LET groups == computeGridClusters(data.nodes, positions, CLUSTER_GRID_SIZE).groups
         IN {groups[i] : i \in {j \in DOMAIN groups : Len(groups[j].members) > 1}}
    ELSE {}

\* a click on the rectangle of the group g
ClusterClick(g) ==
    /\ g \in clusterRects
    /\ LET targetK == RatMax(RatMul(transform.k, Rat(135, 100)),
                             RatMul(CLUSTER_ZOOM_THRESHOLD, Rat(125, 100)))
       IN transform' = zoomToWorldPoint(Rat(g.center.x, 6), Rat(g.center.y, 6), targetK)
    /\ fitCall' = NoLayout
    /\ last' = ViewEvent("cluster", FALSE, size # NoSize, transform)
    /\ UNCHANGED <<measured, size, prevSizeRef, didInitialFitRef, positions, viewRest>>

ViewNext ==
    \/ \E s \in Sizes : Measure(s)
    \/ \E pm \in Contents : DataChange(pm)
    \/ zoomIn
    \/ zoomOut
    \/ resetZoom
    \/ \E pm \in {positions, EmptyMap} : FitCommand(pm)
    \/ \E g \in clusterRects : ClusterClick(g)

ViewSpec == ViewInit /\ [][ViewNext]_vars

(***************************************************************************)
(* Vocabulary of the properties: adjacency read directly off the edge     *)
(* list, in either direction.                                              *)
(***************************************************************************)
Connected(d, a, b) ==
    \E i \in DOMAIN d.edges :
        \/ d.edges[i].from = a /\ d.edges[i].to = b
        \/ d.edges[i].from = b /\ d.edges[i].to = a

Neighbours(d, k) == {n \in AllKeys : Connected(d, k, n)}

PathOps == {"expand", "badge", "props"}

(***************************************************************************)
(* C1: an expand action (expand button or hidden-count badge) on a node n  *)
(* that is in the path at index i sets the path to path[0..i], whatever    *)
(* else holds of n.                                                        *)
(***************************************************************************)
C1_DrillUpTruncates ==
    [][(last'.op \in {"expand", "badge"} /\ indexOf(expansionPath, last'.key) # 0)
          => expansionPath' = slice(expansionPath, indexOf(expansionPath, last'.key))]_vars

(***************************************************************************)
(* C2: an expand-button click on a node n that is not the root and is      *)
(* joined to the focus by an edge (either direction) appends n to the      *)
(* path; a click on the root, or on a node neither joined to the focus nor *)
(* in the path, leaves the path as it is.                                  *)
(***************************************************************************)
C2_DrillDownAppends ==
    [][last'.op = "expand" =>
          LET n == last'.key
              focus == focusOf(expansionPath)
          IN /\ (n # centerKey /\ Connected(data, focus, n))
                    => expansionPath' = Append(expansionPath, n)
             /\ (n = centerKey \/ (~Connected(data, focus, n) /\ n \notin Range(expansionPath)))
                    => expansionPath' = expansionPath]_vars

\* the last step appended the clicked node, reached over an edge that points
\* at the previous focus
C2_Witness ==
    /\ last.op = "expand"
    /\ Len(expansionPath) >= 2
    /\ focusOf(expansionPath) = last.key
    /\ \E i \in DOMAIN data.edges :
          /\ data.edges[i].from = last.key
          /\ data.edges[i].to = expansionPath[Len(expansionPath) - 1]
    /\ ~\E i \in DOMAIN data.edges : data.edges[i].to = last.key

(***************************************************************************)
(* C3: the path is never empty and always starts with centerKey; after     *)
(* construction it is [centerKey].                                         *)
(***************************************************************************)
C3_PathRooted ==
    /\ Len(expansionPath) >= 1
    /\ expansionPath[1] = centerKey
    /\ last.op = "init" => expansionPath = <<centerKey>>

\* a badge click has led back to the root from a deeper path
C3_Witness ==
    /\ last.op = "badge"
    /\ last.key = centerKey
    /\ expansionPath = <<centerKey>>

(***************************************************************************)
(* C4: a change of the data object or of centerKey leaves the path equal   *)
(* to [centerKey].                                                         *)
(***************************************************************************)
C4_ResetOnPropsChange ==
    last.op = "props" => expansionPath = <<centerKey>>

\* a reset that came from a deeper path: only then does the auto-fit effect
\* schedule a fit for a path of length one
C4_Witness ==
    /\ last.op = "props"
    /\ expansionPath = <<centerKey>>
    /\ timers # {}

(***************************************************************************)
(* C5: visibleNodes is the set of path keys united with the neighbours of  *)
(* the focus, visibleEdges the set of edges with both endpoints in         *)
(* visibleNodes; in the scenario graph path [CENTER] shows {CENTER, A, B}  *)
(* and path [CENTER, A] shows {CENTER, A, C}.                              *)
(***************************************************************************)
EdgesWithin(d, ks) == {i \in DOMAIN d.edges : d.edges[i].from \in ks /\ d.edges[i].to \in ks}

VisibleEdgesAre(d, vedges, ks) ==
    /\ Len(vedges) = Cardinality(EdgesWithin(d, ks))
    /\ \A i \in DOMAIN d.edges : (i \in EdgesWithin(d, ks)) <=> (d.edges[i] \in Range(vedges))

C5_Scenario ==
    (data = ScenarioGraph /\ centerKey = "CENTER") =>
        /\ expansionPath = <<"CENTER">> => KeysOf(visibleNodes) = {"CENTER", "A", "B"}
        /\ expansionPath = <<"CENTER", "A">> => KeysOf(visibleNodes) = {"CENTER", "A", "C"}

\* C5 as stated: the visible keys are all path keys and all neighbours of the
\* focus, for every graph
C5_VisibleAsStated ==
    /\ KeysOf(visibleNodes)
          = Range(expansionPath) \cup Neighbours(data, focusOf(expansionPath))
    /\ VisibleEdgesAre(data, visibleEdges, KeysOf(visibleNodes))
    /\ C5_Scenario

\* C5 amended: when the focus is the key of a node of the graph, visibleNodes is
\* the set of nodes of the graph whose key is a path key or a neighbour of the
\* focus (in both copies of the component), and visibleEdges is the set of
\* edges with both endpoints in visibleNodes
C5_VisibleOfKnownFocus ==
    /\ focusOf(expansionPath) \in NodeKeys(data) =>
          LET expected == (Range(expansionPath) \cup Neighbours(data, focusOf(expansionPath)))
                              \cap NodeKeys(data)
          IN /\ KeysOf(visibleNodes) = expected
             /\ KeysOf(visibleNodesByEdgesOf(data, expansionPath)) = expected
    /\ VisibleEdgesAre(data, visibleEdges, KeysOf(visibleNodes))
    /\ C5_Scenario

\* the scenario after drilling into A: B is no longer visible
C5_Witness ==
    /\ data = ScenarioGraph
    /\ expansionPath = <<"CENTER", "A">>
    /\ last.op = "expand"
    /\ KeysOf(visibleNodes) = {"CENTER", "A", "C"}

(***************************************************************************)
(* C6: every visible edge has both endpoints among the visible nodes, and  *)
(* every path key is the key of a visible node.                            *)
(***************************************************************************)
EdgesInsideVisible ==
    \A i \in DOMAIN visibleEdges :
        /\ visibleEdges[i].from \in KeysOf(visibleNodes)
        /\ visibleEdges[i].to \in KeysOf(visibleNodes)

\* C6 as stated: visible edges end at visible nodes and every path key is
\* visible, for any graph data and root key
C6_VisibilityAsStated ==
    /\ EdgesInsideVisible
    /\ Range(expansionPath) \subseteq KeysOf(visibleNodes)

\* C6 amended: visible edges end at visible nodes, and every path key is
\* visible provided centerKey is the key of a node of the graph
C6_VisibilityOfKnownRoot ==
    /\ EdgesInsideVisible
    /\ centerKey \in NodeKeys(data) => Range(expansionPath) \subseteq KeysOf(visibleNodes)

\* an ancestor that is no neighbour of the focus is visible, and so is an edge
C6_Witness ==
    /\ centerKey \in NodeKeys(data)
    /\ Len(expansionPath) >= 3
    /\ ~Connected(data, centerKey, focusOf(expansionPath))
    /\ centerKey \in KeysOf(visibleNodes)
    /\ Len(visibleEdges) >= 2

(***************************************************************************)
(* C7: after a drill-down from focus f to a child c, a drill-up to f shows *)
(* exactly the nodes and edges that were visible before the drill-down.    *)
(* The state after the drill-down has path p.c with f the last key of p;   *)
(* the drill-up is a click on f that makes f the focus again.              *)
(***************************************************************************)
Front(s) == SubSeq(s, 1, Len(s) - 1)

C7_RoundTrip ==
    [][(/\ last.op = "expand"
        /\ Len(expansionPath) >= 2
        /\ focusOf(expansionPath) = last.key
        /\ last'.op \in {"expand", "badge"}
        /\ last'.key = expansionPath[Len(expansionPath) - 1]
        /\ expansionPath' # expansionPath
        /\ focusOf(expansionPath') = last'.key)
          => /\ visibleNodes' = visibleNodesOf(data, Front(expansionPath))
             /\ visibleEdges' = visibleEdgesOf(data, Front(expansionPath))]_vars

(***************************************************************************)
(* C8: collapsedInfo has an entry for k exactly when k is a path node      *)
(* before the focus and at least one distinct neighbour of k, other than k *)
(* itself, is absent from visibleNodes; hiddenChildren is the number of    *)
(* those neighbours.  In the scenario graph path [CENTER, A] gives         *)
(* collapsedInfo[CENTER].hiddenChildren = 1.                               *)
(***************************************************************************)
HiddenNeighbours(d, vnodes, k) == (Neighbours(d, k) \ {k}) \ KeysOf(vnodes)

CollapsedInfoIs(info, d, vnodes, path) ==
    /\ DOMAIN info = {k \in Range(Front(path)) : HiddenNeighbours(d, vnodes, k) # {}}
    /\ \A k \in DOMAIN info :
          info[k].hiddenChildren = Cardinality(HiddenNeighbours(d, vnodes, k))

C8_Scenario ==
    (data = ScenarioGraph /\ expansionPath = <<"CENTER", "A">>) =>
        /\ DOMAIN collapsedNodeInfo = {"CENTER"}
        /\ collapsedNodeInfo["CENTER"].hiddenChildren = 1

\* C8 for the copy of the component that keeps the connections map
C8_CollapsedInfoOfMap ==
    /\ CollapsedInfoIs(collapsedNodeInfo, data, visibleNodes, expansionPath)
    /\ C8_Scenario

\* C8 for both copies of the component: the entries and their hiddenChildren
\* are the path nodes before the focus with hidden neighbours, and their number
C8_CollapsedInfo ==
    /\ C8_CollapsedInfoOfMap
    /\ CollapsedInfoIs(collapsedNodeInfoByEdgesOf(data, expansionPath), data,
                       visibleNodesByEdgesOf(data, expansionPath), expansionPath)

(***************************************************************************)
(* C9: each path element after the first is joined to its predecessor by   *)
(* an edge of the full edge list of the current data (either direction).   *)
(* The data object changes only together with a reset of the path.         *)
(***************************************************************************)
C9_PathConnected ==
    \A i \in 2..Len(expansionPath) :
        Connected(data, expansionPath[i - 1], expansionPath[i])

\* a path of three steps none of which is a self-loop
C9_Witness ==
    /\ Len(expansionPath) >= 4
    /\ \A i \in 2..Len(expansionPath) : expansionPath[i - 1] # expansionPath[i]

NonStructuralOps == {"resize", "config", "zoom", "timer"}

C11_DragsSurviveRecompute ==
    [][/\ last'.op \in NonStructuralOps =>
              \A k \in DOMAIN positions :
                  positions[k] \in DragPoints
                      => (k \in DOMAIN positions' /\ positions'[k] = positions[k])
       /\ (last'.op \in PathOps /\ (expansionPath' # expansionPath \/ last'.op = "props")) =>
              \A k \in DOMAIN positions' : positions'[k] = LayoutPos]_vars

(***************************************************************************)
(* C12: a pointer-down, pointer-move or pointer-up event on a node that is *)
(* handled while readOnly is true changes no entry of the position map.    *)
(***************************************************************************)
PointerOps == {"down", "move", "up"}

C12_ReadOnlyNoMove ==
    [][(readOnly /\ last'.op \in PointerOps) => positions' = positions]_vars

(***************************************************************************)
(* C13: in a mapping returned by computeTreeLevels the focus is the only   *)
(* key with depth 0 and has no parent; every other key has one entry, its  *)
(* parent is a key of the mapping joined to it by an edge, and its depth   *)
(* is the parent's depth plus one.                                         *)
(***************************************************************************)
C13_LevelTree ==
    calc.op = "levels" =>
        LET lv == calc.out
            g == calc.in
        IN /\ \A i, j \in DOMAIN lv : lv[i].key = lv[j].key => i = j
           /\ lv # <<>> => g.focus \in LevelKeys(lv)
           /\ \A i \in DOMAIN lv :
                 IF lv[i].key = g.focus
                 THEN lv[i].depth = 0 /\ lv[i].parent = NoKey
                 ELSE /\ lv[i].depth # 0
                      /\ lv[i].parent \in LevelKeys(lv)
                      /\ lv[i].parent # lv[i].key
                      /\ Connected(g, lv[i].parent, lv[i].key)
                      /\ lv[i].depth = LevelInfo(lv, lv[i].parent).depth + 1

\* a mapping with a node at depth 2 that has an edge to the focus's side and
\* one more edge: its parent is one of two neighbours
C13_Witness ==
    /\ calc.op = "levels"
    /\ \E i \in DOMAIN calc.out :
          /\ calc.out[i].depth = 2
          /\ Cardinality(Neighbours(calc.in, calc.out[i].key) \ {calc.out[i].key}) >= 2

(***************************************************************************)
(* C14: the keys of the mapping are the nodes whose shortest undirected    *)
(* distance from the focus, over the edges whose two endpoints are node    *)
(* keys, is at most maxDepth, and each depth is that distance; the mapping *)
(* is empty when the focus is no node.                                     *)
(***************************************************************************)
\* the node keys within distance n of the focus
RECURSIVE Ball(_, _)
Ball(g, n) ==
    IF g.focus \notin KeysOf(g.nodes) THEN {}
    ELSE IF n = 0 THEN {g.focus}
    ELSE LET inner == Ball(g, n - 1)
         IN inner \cup {k \in KeysOf(g.nodes) : \E b \in inner : Connected(g, b, k)}

Distance(g, k) == CHOOSE n \in 0..Cardinality(KeysOf(g.nodes)) :
                      k \in Ball(g, n) /\ \A m \in 0..(n - 1) : k \notin Ball(g, m)

C14_LevelsAreDistances ==
    calc.op = "levels" =>
        LET lv == calc.out
            g == calc.in
        IN /\ LevelKeys(lv) = Ball(g, g.maxDepth)
           /\ \A i \in DOMAIN lv : lv[i].depth = Distance(g, lv[i].key)
           /\ g.focus \notin KeysOf(g.nodes) => lv = <<>>

\* a node at distance maxDepth is in the mapping, a node one step further is not
C14_Witness ==
    /\ calc.op = "levels"
    /\ \E i \in DOMAIN calc.out : calc.out[i].depth = calc.in.maxDepth
    /\ Ball(calc.in, calc.in.maxDepth + 1) # Ball(calc.in, calc.in.maxDepth)

(***************************************************************************)
(* Vocabulary of the layout properties.                                    *)
(***************************************************************************)
LayoutOps == {"simple", "advanced", "adaptive"}

\* the level assignment of the call recorded in calc
CalcLevels == computeTreeLevels(calc.in.nodes, calc.in.edges, calc.in.focus, calc.in.maxDepth)

\* the number of keys of S that come before k in key order
Rank(k, S) == Cardinality({j \in S : indexOf(SortedKeys, j) < indexOf(SortedKeys, k)})

ReverseSeq(q) == [i \in DOMAIN q |-> q[Len(q) + 1 - i]]

\* the layout the recorded calculator returns for the arguments in
LayoutOf(op, in) ==
    LET expandable == expandableKeys(in.nodes, in.focus)
    IN CASE op = "simple" ->
                computeRadialLayout(in.nodes, in.edges, in.focus, in.maxDepth, in.childSpreadDeg)
         [] op = "advanced" ->
                computeRadialLayoutAdvanced(in.nodes, in.edges, in.focus, in.maxDepth,
                                            in.childSpreadDeg, expandable, in.l1)
         [] op = "adaptive" ->
                computeRadialLayoutAdaptive(in.nodes, in.edges, in.focus, in.maxDepth,
                                            in.childSpreadDeg, expandable, in.l1,
                                            in.rectRingsMinLvl1)

(***************************************************************************)
(* C15: the layout returned by the simple, the advanced and the adaptive   *)
(* calculator has a position for every key of the level assignment, for    *)
(* every maxDepth from 1 to 7, and the focus is at the origin.             *)
(***************************************************************************)
C15_EveryLevelPositioned ==
    calc.op \in LayoutOps =>
        /\ LevelKeys(CalcLevels) \subseteq DOMAIN calc.out
        /\ calc.in.focus \in DOMAIN calc.out
        /\ calc.out[calc.in.focus] = Origin

(***************************************************************************)
(* C16: in simple mode a node at depth 2 or more that is the only child of *)
(* its parent lies in the direction of the parent's own angle: its angular *)
(* offset is 0, whatever childSpreadDeg is.                                *)
(***************************************************************************)
C16_SingleChildOnParentAngle ==
    calc.op = "simple" =>
        \A k \in DOMAIN calc.out :
            (calc.out[k].at = "arc" /\ calc.out[k].of = 1) => calc.out[k].num = 0

(***************************************************************************)
(* C17: in the simple and in the advanced calculator the index of a node   *)
(* on the depth-1 circle, or among the children of its parent, is its rank *)
(* in key order, and the layout is the same when the node list is given in *)
(* the opposite order, and when the edge list is (with the same level      *)
(* assignment).                                                            *)
(***************************************************************************)
C17_SiblingsInKeyOrder ==
    calc.op \in {"simple", "advanced"} =>
        LET lv == CalcLevels
            out == calc.out
            siblingsOf(k) == {j \in LevelKeys(lv) :
                                 LevelInfo(lv, j).parent = LevelInfo(lv, k).parent}
            nodesReversed == [calc.in EXCEPT !.nodes = ReverseSeq(calc.in.nodes)]
            edgesReversed == [calc.in EXCEPT !.edges = ReverseSeq(calc.in.edges)]
        IN /\ \A k \in DOMAIN out :
                 /\ out[k].at = "circle"
                        => out[k].idx = Rank(k, {j \in DOMAIN out : out[j].at = "circle"})
                 /\ out[k].at \in {"arc", "outward", "comb"}
                        => out[k].idx = Rank(k, siblingsOf(k))
           /\ LayoutOf(calc.op, nodesReversed) = out
           /\ Range(computeTreeLevels(edgesReversed.nodes, edgesReversed.edges,
                                      edgesReversed.focus, edgesReversed.maxDepth)) = Range(lv)
                 => LayoutOf(calc.op, edgesReversed) = out

(***************************************************************************)
(* C18: in rectangle-ring mode every depth-1 node is in exactly one of the *)
(* two rings; the outer ring holds every expandable depth-1 node, and a    *)
(* non-expandable node only at an index below outerRatio x total; the      *)
(* inner ring holds the remaining depth-1 nodes.                           *)
(***************************************************************************)
C18_RingsPartition ==
    (calc.op = "advanced" /\ calc.in.l1.type = "rectRings") =>
        LET lv == CalcLevels
            out == calc.out
            lvl1 == {k \in LevelKeys(lv) : LevelInfo(lv, k).depth = 1}
            expandable == expandableKeys(calc.in.nodes, calc.in.focus)
            sorted == sortKeys(byDepth(calc.in.nodes, lv, 1))
            outerKeys == outerKeysOf(sorted, expandable, calc.in.l1.outerRatio)
            innerKeys == innerKeysOf(sorted, outerKeys)
            outer == {k \in DOMAIN out : out[k].at = "rect" /\ out[k].ring = "outer"}
            inner == {k \in DOMAIN out : out[k].at = "rect" /\ out[k].ring = "inner"}
        IN /\ outer = Range(outerKeys) /\ inner = Range(innerKeys)
           /\ Len(outerKeys) + Len(innerKeys) = Cardinality(lvl1)
           /\ outer \cup inner = lvl1
           /\ outer \cap inner = {}
           /\ lvl1 \cap expandable \subseteq outer
           /\ \A k \in outer \ expandable :
                 out[k].idx * 100 < calc.in.l1.outerRatio * Cardinality(lvl1)
           /\ inner = lvl1 \ outer

\* a call whose outer ring holds an expandable and a non-expandable node and
\* whose inner ring is not empty
C18_Witness ==
    /\ calc.op = "advanced"
    /\ calc.in.l1.type = "rectRings"
    /\ \E a, b, c \in DOMAIN calc.out :
          /\ calc.out[a].at = "rect" /\ calc.out[a].ring = "outer"
          /\ a \in expandableKeys(calc.in.nodes, calc.in.focus)
          /\ calc.out[b].at = "rect" /\ calc.out[b].ring = "outer"
          /\ b \notin expandableKeys(calc.in.nodes, calc.in.focus)
          /\ calc.out[c].at = "rect" /\ calc.out[c].ring = "inner"

(***************************************************************************)
(* C19: a node whose parent has no position when the node is to be placed  *)
(* gets no position: every positioned node other than the focus has a      *)
(* positioned parent (the depths are placed in increasing order, so the    *)
(* parent has a position then exactly when it has one in the result).      *)
(***************************************************************************)
C19_SkippedWithoutParent ==
    calc.op \in LayoutOps =>
        \A k \in DOMAIN calc.out \cap LevelKeys(CalcLevels) :
            LevelInfo(CalcLevels, k).parent # NoKey
                => LevelInfo(CalcLevels, k).parent \in DOMAIN calc.out

(***************************************************************************)
(* C20: pointOnRectPerimeter maps u = 0 to the midpoint (halfW, 0) of the  *)
(* right edge and every u to a point of the rectangle's perimeter; with    *)
(* halfW = halfH = 200 the four nodes of an outer ring are at the points   *)
(* for u = 0, 0.25, 0.5, 0.75 plus the ring offset.                        *)
(***************************************************************************)
OnPerimeter(p, halfW, halfH) ==
    \/ (p.x = halfW * p.den \/ p.x = -(halfW * p.den))
           /\ p.y >= -(halfH * p.den) /\ p.y <= halfH * p.den
    \/ (p.y = halfH * p.den \/ p.y = -(halfH * p.den))
           /\ p.x >= -(halfW * p.den) /\ p.x <= halfW * p.den

SamePoint(p, q) == p.x * q.den = q.x * p.den /\ p.y * q.den = q.y * p.den

FourNodeRing ==
    ringPositions(<<"A", "B", "C", "D">>, {"A", "B", "C", "D"},
                  [type |-> "rectRings", halfW |-> 200, halfH |-> 200, outerRatio |-> 55,
                   innerScale |-> 72])

C20_PerimeterStartsMidRight ==
    calc.op = "perimeter" =>
        /\ calc.in.u.num = 0 =>
              (calc.out.x = calc.in.halfW * calc.out.den /\ calc.out.y = 0)
        /\ OnPerimeter(calc.out, calc.in.halfW, calc.in.halfH)
        /\ \A k \in DOMAIN FourNodeRing :
              /\ FourNodeRing[k].ring = "outer"
              /\ SamePoint(FourNodeRing[k].point,
                           pointOnRectPerimeter(
                               [num |-> 250 * FourNodeRing[k].idx + RING_U_OFFSET,
                                den |-> 1000], 200, 200))
              /\ OnPerimeter(FourNodeRing[k].point, 200, 200)

ClusterOps == {"clusters", "aggregated"}

\* the groups of the result that have the key k among their members
GroupsHolding(cluster, k) ==
    {i \in DOMAIN cluster.groups : k \in Range(cluster.groups[i].members)}

\* the grid cell of a point, by its defining inequalities
InCell(p, cell, gridSize) ==
    /\ cell[1] * gridSize <= p.x /\ p.x < (cell[1] + 1) * gridSize
    /\ cell[2] * gridSize <= p.y /\ p.y < (cell[2] + 1) * gridSize

RECURSIVE SumLens(_)
SumLens(q) == IF q = <<>> THEN 0 ELSE Len(Head(q).members) + SumLens(Tail(q))

\* C21: computeGridClusters puts every positioned node in exactly one group,
\* the group keyed by the grid cell (floor(x / gridSize), floor(y / gridSize))
\* of its position, also for negative coordinates; a node without a position
\* is in no group; nodeToGroup agrees with the member lists; and the member
\* counts add up to the number of positioned nodes.
C21_GridPartition ==
    calc.op \in ClusterOps =>
        LET c == calc.out.cluster
            pos == calc.in.positions
            ks == KeysOf(calc.in.nodes)
        IN /\ \A k \in ks \cap DOMAIN pos :
                 /\ Cardinality(GroupsHolding(c, k)) = 1
                 /\ \A i \in GroupsHolding(c, k) :
                       /\ InCell(pos[k], c.groups[i].key, calc.in.gridSize)
                       /\ Cardinality({j \in DOMAIN c.groups[i].members :
                                          c.groups[i].members[j] = k}) = 1
           /\ \A k \in ks \ DOMAIN pos : GroupsHolding(c, k) = {}
           /\ DOMAIN c.nodeToGroup = ks \cap DOMAIN pos
           /\ \A i \in DOMAIN c.groups : \A k \in Range(c.groups[i].members) :
                 k \in DOMAIN c.nodeToGroup /\ c.nodeToGroup[k] = c.groups[i].key
           /\ \A i, j \in DOMAIN c.groups : c.groups[i].key = c.groups[j].key => i = j
           /\ SumLens(c.groups) = Cardinality(ks \cap DOMAIN pos)

\* two nodes share a cell left of and above the origin, a third has no position
C21_Witness ==
    /\ calc.op = "clusters"
    /\ \E i \in DOMAIN calc.out.cluster.groups :
          /\ Len(calc.out.cluster.groups[i].members) = 2
          /\ calc.out.cluster.groups[i].key[1] < 0
          /\ calc.out.cluster.groups[i].key[2] < 0
    /\ \E k \in KeysOf(calc.in.nodes) : k \notin DOMAIN calc.in.positions

\* the edges of the input that lead from a member of group g to a member of
\* group h
EdgesBetween(g, h) ==
    {i \in DOMAIN calc.in.edges :
        /\ calc.in.edges[i].from \in DOMAIN calc.out.cluster.nodeToGroup
        /\ calc.in.edges[i].to \in DOMAIN calc.out.cluster.nodeToGroup
        /\ calc.out.cluster.nodeToGroup[calc.in.edges[i].from] = g
        /\ calc.out.cluster.nodeToGroup[calc.in.edges[i].to] = h}

GroupSize(g) == Cardinality({k \in DOMAIN calc.out.cluster.nodeToGroup :
                                calc.out.cluster.nodeToGroup[k] = g})

\* C22: computeAggregatedEdges returns one aggregate (gFrom, gTo, count) for
\* exactly the ordered pairs of different groups, at least one of them with
\* more than one member, that some edge leads from gFrom to gTo; count is the
\* number of those edges; the two directions are counted separately.
C22_AggregatedEdges ==
    calc.op = "aggregated" =>
        LET agg == calc.out.aggregatedEdges
            gs == Range(calc.out.cluster.nodeToGroup)
            expected == {pr \in gs \X gs :
                            /\ pr[1] # pr[2]
                            /\ GroupSize(pr[1]) > 1 \/ GroupSize(pr[2]) > 1
                            /\ EdgesBetween(pr[1], pr[2]) # {}}
        IN /\ {<<agg[i].from, agg[i].to>> : i \in DOMAIN agg} = expected
           /\ Len(agg) = Cardinality(expected)
           /\ \A i \in DOMAIN agg :
                 agg[i].count = Cardinality(EdgesBetween(agg[i].from, agg[i].to))

\* both directions between a group of two and a single node, two edges one way
C22_Witness ==
    /\ calc.op = "aggregated"
    /\ \E i, j \in DOMAIN calc.out.aggregatedEdges :
          /\ calc.out.aggregatedEdges[i].from = calc.out.aggregatedEdges[j].to
          /\ calc.out.aggregatedEdges[i].to = calc.out.aggregatedEdges[j].from
          /\ calc.out.aggregatedEdges[i].count = 2
          /\ calc.out.aggregatedEdges[j].count = 1

\* a fit has computed and requested a transform in this step
FitRan == fitCall # NoLayout /\ fitCall # EmptyMap /\ last.applied

\* the extent of the content of a position map: the node boxes and the
\* padding of a fit on both sides
ContentWidth(pm) ==
    Max({pm[k].x : k \in DOMAIN pm}) - Min({pm[k].x : k \in DOMAIN pm}) + NODE_BOX_WIDTH + 10
ContentHeight(pm) ==
    Max({pm[k].y : k \in DOMAIN pm}) - Min({pm[k].y : k \in DOMAIN pm}) + NODE_BOX_HEIGHT + 10

\* min(viewportWidth / contentWidth, viewportHeight / contentHeight)
RawScale(pm, s) == RatMin(Rat(s.w, ContentWidth(pm)), Rat(s.h, ContentHeight(pm)))

\* r brought into the range [lo, hi]
Clamped(r, lo, hi) == IF RatLess(r, lo) THEN lo ELSE IF RatLess(hi, r) THEN hi ELSE r

\* C23 as stated: a fit chooses the raw scale clamped to [minZoom, maxZoom];
\* the first fit after mount or after a change of the graph data is capped at
\* 1 instead of maxZoom and never yields a scale above 1.
C23_FitScaleAsStated ==
    FitRan =>
        IF last.first
        THEN /\ RatLeq(transform.k, One)
             /\ transform.k = Clamped(RawScale(fitCall, size), config.minZoom, One)
        ELSE transform.k = Clamped(RawScale(fitCall, size), config.minZoom, config.maxZoom)

\* C23: a fit chooses the raw scale clamped to [minZoom, maxZoom]; the first
\* fit after mount or after a change of the graph data chooses the raw scale
\* capped at 1 and then raised to minZoom, so it never yields a scale above
\* the larger of 1 and minZoom.
C23_FitScale ==
    FitRan =>
        IF last.first
        THEN /\ transform.k = RatMax(config.minZoom, RatMin(One, RawScale(fitCall, size)))
             /\ RatLeq(transform.k, RatMax(One, config.minZoom))
        ELSE transform.k = Clamped(RawScale(fitCall, size), config.minZoom, config.maxZoom)

\* a first fit of content that would fill the viewport at a scale above 1
C23_Witness ==
    /\ FitRan /\ last.first
    /\ RatLess(One, RawScale(fitCall, size))
    /\ RatLess(One, config.maxZoom)
    /\ transform.k = One

\* C24: computeGraphBounds returns no bounds for an empty position map, and
\* zoomToFit with an empty position map requests nothing and leaves the
\* transform as it was.
C24_EmptyFitIsNoOp ==
    /\ computeGraphBounds(EmptyMap) = NoBounds
    /\ (last.op = "zoomToFit" /\ fitCall = EmptyMap) =>
           (transform = last.before /\ ~last.applied)

\* zoomToFit with an empty map in a measured viewport whose view was changed
C24_Witness ==
    /\ last.op = "zoomToFit" /\ fitCall = EmptyMap
    /\ size # NoSize
    /\ transform # zoomIdentity

\* C25: when no node has a position, a fit in a measured viewport requests a
\* transform that is centred on the viewport and depends on nothing else.
C25_SentinelTransform ==
    (last.op = "zoomToFit" /\ fitCall = EmptyMap /\ size # NoSize) =>
        (last.applied /\ transform.wx = Zero /\ transform.wy = Zero)

BaseOps == {"baseLayout", "baseLayoutOlder"}

\* the nodes a render of the copy that computed calc.out shows
ShownKeys ==
    KeysOf(IF calc.op = "baseLayout"
           THEN visibleNodesOf(calc.in.data, calc.in.expansionPath)
           ELSE visibleNodesByEdgesOf(calc.in.data, calc.in.expansionPath))

\* C26: in radial layout, for every path that drill transitions build, of any
\* length and with any number of neighbours of the focus, every visible node
\* and so every node of the path has a position in baseLayout.
C26_VisiblePositioned ==
    calc.op \in BaseOps => ShownKeys \subseteq DOMAIN calc.out

\* the same of the copy that adds the breadcrumb positions
C26_PositionedWithBreadcrumbs ==
    calc.op = "baseLayout" => ShownKeys \subseteq DOMAIN calc.out

\* C27: an expand click on the focus, when the focus is not the root, makes
\* the path strictly shorter and leaves the clicked node no longer the focus.
C27_FocusClickNavigatesUp ==
    [][(last'.op = "expand" /\ last'.key = focusOf(expansionPath) /\ last'.key # centerKey)
          => (Len(expansionPath') < Len(expansionPath)
              /\ focusOf(expansionPath') # last'.key)]_vars

\* C28: the elements of the expansion path are pairwise distinct, so the path
\* is not longer than the number of nodes.
C28_PathDistinct ==
    /\ \A i, j \in DOMAIN expansionPath : expansionPath[i] = expansionPath[j] => i = j
    /\ Len(expansionPath) <= Cardinality(NodeKeys(data) \cup {centerKey})

\* a path transition has just scheduled a fit and has cancelled none
FitScheduled == last.op \in PathOps /\ ~last.cancelled /\ pendingFit

\* the timer has run zoomToFit on the layout of the current path
FitDone == last.op = "timer" /\ fitCall = baseLayoutOf(data, expansionPath)

\* a later path transition has cancelled the pending fit
FitSuperseded == last.op \in PathOps /\ last.cancelled

ZoomCommands == {"zoomIn", "zoomOut", "zoomToFit", "resetZoom", "cluster"}

\* C30: whenever zoomIn, zoomOut, zoomToFit (the first fit included),
\* resetZoom or a click on a cluster rectangle requests a transform, its scale
\* lies within [minZoom, maxZoom].
C30_ScaleWithinBounds ==
    (last.applied /\ (last.op \in ZoomCommands \/ FitRan)) =>
        (RatLeq(config.minZoom, transform.k) /\ RatLeq(transform.k, config.maxZoom))

====
